---- MODULE Spec2Model ----
(***************************************************************************)
(* Model of the market-data engine of financial-rag-engine:                *)
(*   core/stock_market/market_engine.py   (MarketEngine)                   *)
(*   core/stock_market/fetch_market_data.py (MarketDataAnalyzer)           *)
(*                                                                         *)
(* Conventions.                                                            *)
(*  - A timestamp is a day number.  The stored text is the ISO form of a   *)
(*    midnight date and the SQL cutoffs are date(...) texts, so the text   *)
(*    comparison of the code orders them exactly as the day numbers.       *)
(*  - A Python None / empty value of an Optional field is the falsy value  *)
(*    of the field's type ("" for text, <<>> for lists); the code tests    *)
(*    these fields by truthiness only.                                     *)
(*  - A result key is a tuple of name parts: <<"close">> is the column     *)
(*    close, <<"avg", "close">> is the alias avg_close.                    *)
(*  - A cell of a result row is symbolic: it names the column and the      *)
(*    stored row(s) it was read from.                                      *)
(***************************************************************************)
EXTENDS Integers, Sequences, FiniteSets, TLC

(***************************************************************************)
(* Bounds of the model.                                                    *)
(***************************************************************************)
\* rows in one fetched series (the provider returns the latest daily points)
FetchWindow == 26
\* refreshes that store data
MaxRefresh == 2
\* days the clock may advance
MaxTick == 1

\* the largest number of fetched rows a summary is built from on its own
MaxRows == 2

\* messages saved, chats a client creates itself, and the largest advance
\* of the clock between two readings
MaxMessages == 3
MaxChats == 1
MaxStep == 2
\* clock readings to the second (the code's clock has 1000000)
MicrosPerSecond == 3

\* the largest count N of a phrase "N days", "N weeks", "N months"
MaxCount == 14

\* the record of a refresh at which storing may fail, the largest
\* days_to_keep of a clean-up, and the latest second of the day it runs at
MaxFail == 2
MaxKeep == 2
MaxSecond == 1

\* generate calls on one chat
MaxCalls == 3

(***************************************************************************)
(* Program constants.                                                      *)
(***************************************************************************)
records_per_symbol == 25
single_query_limit == 50

\* fetch_market_data: the assets fetched (JPM behaves as AAPL/MSFT and ETH
\* as BTC; one crypto and two stocks keep every code path).
stocks == <<"AAPL", "MSFT">>
cryptos == <<"BTC">>

\* CREATE TABLE stock_data: the columns of the table
table_columns ==
    {"id", "symbol", "timestamp", "open", "high", "low", "close", "volume",
     "ma5", "ma10", "ma20", "rsi", "volatility", "atr", "pct_change",
     "created_at", "updated_at"}

\* CREATE TABLE / CREATE INDEX: the column sets that carry a uniqueness
\* constraint.  Only the primary key does; the three indexes are plain.
unique_constraints == {{"id"}}

\* SQL NULL / Python None inside a result row
Null == "NULL"
NullTs == -1

VARIABLES
    store,          \* table stock_data: sequence of rows in rowid order
    last_id,        \* AUTOINCREMENT high-water mark
    now,            \* the current day
    llm_set,        \* whether _setup_sql_agent managed to set self.llm
    refreshes,      \* refreshes that stored data so far
    call,           \* the call whose result is being returned
    built,          \* the last direct use of the query builder
    chats,          \* table chats of conversations.db, in insertion order
    messages,       \* table messages of conversations.db, in rowid order
    clock           \* the last reading of the UTC clock

vars ==
    <<store, last_id, now, llm_set, refreshes, call, built, chats, messages,
      clock>>

\* the tables of the conversation memory and its clock
memory == <<chats, messages, clock>>

\* the state of the market engine
market == <<store, last_id, now, llm_set, refreshes, built>>

StartDay == FetchWindow + 4

(***************************************************************************)
(* Small helpers.                                                          *)
(***************************************************************************)
Range(s) == {s[i] : i \in 1..Len(s)}

Reverse(s) == [i \in 1..Len(s) |-> s[Len(s) + 1 - i]]

Min2(a, b) == IF a <= b THEN a ELSE b

Take(s, n) == SubSeq(s, 1, Min2(n, Len(s)))

RECURSIVE Flatten(_)
Flatten(ss) == IF ss = <<>> THEN <<>> ELSE Head(ss) \o Flatten(Tail(ss))

(***************************************************************************)
(* The store.                                                              *)
(***************************************************************************)
\* Two rows conflict when they agree on every column of some uniqueness
\* constraint of the table.
Conflicts(old, new) ==
    \E uc \in unique_constraints : \A c \in uc : old[c] = new[c]

\* INSERT OR REPLACE INTO stock_data (symbol, timestamp, ...) VALUES (...):
\* the id is not supplied, so the row gets the next AUTOINCREMENT id; the
\* rows that conflict with the new row are deleted first.  A row therefore
\* survives a batch of such statements iff no row inserted after it
\* conflicts with it.
InsertOrReplaceAll(tbl, new_rows) ==
    LET survives(old) ==
            \A k \in 1..Len(new_rows) :
                new_rows[k].id > old.id => ~Conflicts(old, new_rows[k])
    IN  SelectSeq(tbl, survives) \o SelectSeq(new_rows, survives)

\* fetch_stock_data / fetch_crypto_data: a series is the latest FetchWindow
\* days in ascending order (sort_index).
Series(day) == [i \in 1..FetchWindow |-> day - FetchWindow + i]

\* data[f"{symbol}-USD"] = df
CryptoKey(sym) == CASE sym = "BTC" -> "BTC-USD"
                    [] sym = "ETH" -> "ETH-USD"
                    [] OTHER -> sym

\* fetch_market_data: the dict symbol -> series, in insertion order, of the
\* assets whose fetch returned a valid frame.
fetch_market_data(fetched, day) ==
    LET st == SelectSeq(stocks, LAMBDA s : s \in fetched)
        cr == SelectSeq(cryptos, LAMBDA s : s \in fetched)
    IN  [i \in 1..Len(st) |-> [symbol |-> st[i], df |-> Series(day)]]
        \o [i \in 1..Len(cr) |->
                [symbol |-> CryptoKey(cr[i]), df |-> Series(day)]]

\* the stock_record tuples of one refresh, in the order of the two loops
\* (for symbol, df in market_data.items(); for index, row in df.iterrows()),
\* each with the id AUTOINCREMENT gives it
StockRecords(idc, market_data) ==
    LET recs == Flatten([i \in 1..Len(market_data) |->
                    [j \in 1..Len(market_data[i].df) |->
                        [symbol |-> market_data[i].symbol,
                         timestamp |-> market_data[i].df[j]]]])
    IN  [k \in 1..Len(recs) |->
            [id |-> idc + k, symbol |-> recs[k].symbol,
             timestamp |-> recs[k].timestamp]]

\* _store_market_data: every row of every series goes through INSERT OR
\* REPLACE inside one transaction, committed at the end.
store_market_data(tbl, idc, market_data) ==
    InsertOrReplaceAll(tbl, StockRecords(idc, market_data))

RecordsIn(market_data) == Len(StockRecords(0, market_data))

(***************************************************************************)
(* Time phrases.  A phrase is a sequence of tokens separated by single     *)
(* blanks; a token is a number or a word.                                  *)
(***************************************************************************)
Num(n) == [k |-> "num", n |-> n]
Word(w) == [k |-> "word", w |-> w]

\* the words of the model's vocabulary, and each in its three letter cases:
\* lower, Capitalised, UPPER
Words ==
    {"today", "yesterday", "last", "this", "week", "month", "year", "day",
     "days", "weeks", "months", "previous", "next", "ago", "tomorrow"}

Capitalised(w) ==
    CASE w = "today" -> "Today"
      [] w = "yesterday" -> "Yesterday"
      [] w = "last" -> "Last"
      [] w = "this" -> "This"
      [] w = "week" -> "Week"
      [] w = "month" -> "Month"
      [] w = "year" -> "Year"
      [] w = "day" -> "Day"
      [] w = "days" -> "Days"
      [] w = "weeks" -> "Weeks"
      [] w = "months" -> "Months"
      [] w = "previous" -> "Previous"
      [] w = "next" -> "Next"
      [] w = "ago" -> "Ago"
      [] w = "tomorrow" -> "Tomorrow"
      [] OTHER -> w

Upper(w) ==
    CASE w = "today" -> "TODAY"
      [] w = "yesterday" -> "YESTERDAY"
      [] w = "last" -> "LAST"
      [] w = "this" -> "THIS"
      [] w = "week" -> "WEEK"
      [] w = "month" -> "MONTH"
      [] w = "year" -> "YEAR"
      [] w = "day" -> "DAY"
      [] w = "days" -> "DAYS"
      [] w = "weeks" -> "WEEKS"
      [] w = "months" -> "MONTHS"
      [] w = "previous" -> "PREVIOUS"
      [] w = "next" -> "NEXT"
      [] w = "ago" -> "AGO"
      [] w = "tomorrow" -> "TOMORROW"
      [] OTHER -> w

\* str.lower() on one word: the lower-case word it is a letter case of
LowerWord(w) ==
    IF w \in Words THEN w
    ELSE IF \E v \in Words : w \in {Capitalised(v), Upper(v)}
    THEN CHOOSE v \in Words : w \in {Capitalised(v), Upper(v)}
    ELSE w

\* a build whose comparison keeps the letter case of the phrase
LowerKeepsCase(phrase) == phrase

\* str.lower() on a phrase
Lower(phrase) ==
    [i \in 1..Len(phrase) |->
        IF phrase[i].k = "word" THEN Word(LowerWord(phrase[i].w))
        ELSE phrase[i]]

\* the words w for which the text w begins with the given unit name, as
\* re.match(r"(\d+)\s*days?", ...) and its siblings require after the digits
StartsWithUnit(w, unit) ==
    CASE unit = "day" -> w \in {"day", "days"}
      [] unit = "week" -> w \in {"week", "weeks"}
      [] unit = "month" -> w \in {"month", "months"}
      [] OTHER -> FALSE

\* re.match(r"(\d+)\s*<unit>s?", time_range_lower): anchored at the start
\* of the text only
MatchesNumeric(phrase, unit) ==
    /\ Len(phrase) >= 2
    /\ phrase[1].k = "num"
    /\ phrase[2].k = "word"
    /\ StartsWithUnit(phrase[2].w, unit)

\* A SQLite date('now', modifiers...) expression: the modifiers the code
\* uses are 'weekday 0', 'start of month', 'start of year' and offsets.
DateNow == [weekday0 |-> FALSE, start_of |-> "", days |-> 0, months |-> 0,
            years |-> 0]

NoDate == [none |-> TRUE]

\* the model calendar: every month has DaysPerMonth days, day 0 is the
\* first day of a month and of a year and a Sunday
DaysPerMonth == 30
MonthsPerYear == 12

\* what SQLite computes for a date expression on a given day
EvalDate(e, day) ==
    LET d1 == IF e.weekday0 THEN day + ((7 - (day % 7)) % 7) ELSE day
        d2 == CASE e.start_of = "month" -> d1 - (d1 % DaysPerMonth)
                [] e.start_of = "year" ->
                       d1 - (d1 % (DaysPerMonth * MonthsPerYear))
                [] OTHER -> d1
    IN  d2 + e.days + DaysPerMonth * e.months
           + DaysPerMonth * MonthsPerYear * e.years

\* a condition "timestamp >= lo [AND timestamp < hi]"; the empty text ""
\* is NoCondition
NoCondition == [empty |-> TRUE]

\* a build whose conditions never carry an upper bound
CondLowerOnly(lo, hi) == [empty |-> FALSE, lo |-> lo, hi |-> NoDate]

Cond(lo, hi) == [empty |-> FALSE, lo |-> lo, hi |-> hi]

\* the dict time_filters
time_filters(phrase) ==
    CASE phrase = <<Word("today")>> -> Cond(DateNow, NoDate)
      [] phrase = <<Word("yesterday")>> ->
            Cond([DateNow EXCEPT !.days = -1], DateNow)
      [] phrase = <<Word("last"), Word("week")>> ->
            Cond([DateNow EXCEPT !.days = -7], NoDate)
      [] phrase = <<Word("this"), Word("week")>> ->
            Cond([DateNow EXCEPT !.weekday0 = TRUE, !.days = -6], NoDate)
      [] phrase = <<Word("last"), Word("month")>> ->
            Cond([DateNow EXCEPT !.months = -1], NoDate)
      [] phrase = <<Word("this"), Word("month")>> ->
            Cond([DateNow EXCEPT !.start_of = "month"], NoDate)
      [] phrase = <<Word("last"), Word("year")>> ->
            Cond([DateNow EXCEPT !.years = -1], NoDate)
      [] phrase = <<Word("this"), Word("year")>> ->
            Cond([DateNow EXCEPT !.start_of = "year"], NoDate)
      [] OTHER -> NoCondition

\* a build that takes the number of weeks for the number of days
week_days_unscaled(weeks) == weeks

\* days = weeks * 7
week_days(weeks) == weeks * 7

\* _build_time_filter: (condition, params)
build_time_filter(time_range) ==
    LET time_range_lower == Lower(time_range)
    IN  IF MatchesNumeric(time_range_lower, "day")
        THEN [condition |->
                Cond([DateNow EXCEPT !.days = -time_range_lower[1].n],
                     NoDate),
              params |-> <<>>]
        ELSE IF MatchesNumeric(time_range_lower, "week")
        THEN [condition |->
                Cond([DateNow EXCEPT !.days = -week_days(time_range_lower[1].n)],
                     NoDate),
              params |-> <<>>]
        ELSE IF MatchesNumeric(time_range_lower, "month")
        THEN [condition |->
                Cond([DateNow EXCEPT !.months = -time_range_lower[1].n],
                     NoDate),
              params |-> <<>>]
        ELSE [condition |-> time_filters(time_range_lower), params |-> <<>>]

\* whether a stored timestamp satisfies a condition on a given day
SatisfiesCond(cond, ts, day) ==
    \/ cond.empty
    \/ /\ ts >= EvalDate(cond.lo, day)
       /\ (cond.hi # NoDate => ts < EvalDate(cond.hi, day))

(***************************************************************************)
(* The dynamic query builder.                                              *)
(***************************************************************************)
AGG4 == {"avg", "sum", "max", "min"}

\* str.upper()/str.lower() of an aggregation name; SQL function names are
\* case-insensitive, so the function is named by its lower-case form
LowerAgg(a) == CASE a = "AVG" -> "avg"
                 [] OTHER -> a

\* the default columns of an intent
IntentDefaults(intent) ==
    CASE intent = "price" -> <<"open", "high", "low", "close">>
      [] intent = "volume" -> <<"volume", "close">>
      [] intent = "volatility" -> <<"volatility", "close", "atr">>
      [] intent = "technical" -> <<"ma5", "ma10", "ma20", "rsi", "atr">>
      [] intent = "trend" -> <<"close", "ma5", "ma20", "pct_change">>
      [] intent = "comparison" -> <<"close", "rsi", "ma5", "ma20", "volume">>
      [] intent = "change" -> <<"close", "pct_change", "open">>
      [] OTHER -> <<"open", "high", "low", "close", "volume">>

\* a column list left with its repetitions
DedupKeepAll(s) == s

\* list(dict.fromkeys(s)): first occurrences, in order
Dedup(s) ==
    LET firsts == {i \in 1..Len(s) : \A j \in 1..(i - 1) : s[j] # s[i]}
        nth(k) == CHOOSE i \in firsts :
                      Cardinality({j \in firsts : j < i}) = k - 1
    IN  [k \in 1..Cardinality(firsts) |-> s[nth(k)]]

\* select_columns after the metrics / intent step and the de-duplication
select_columns(extraction) ==
    Dedup(<<"symbol", "timestamp">>
          \o (IF extraction.metrics # <<>> THEN extraction.metrics
              ELSE IntentDefaults(extraction.intent)))

\* one item of a select clause: a bare column (fn = "") or FN(col) as fn_col
Bare(col) == [fn |-> "", col |-> col]
Agg(fn, col) == [fn |-> fn, col |-> col]

\* one step of the loop that fills agg_columns
agg_item(col, aggregation) ==
    IF col \in {"symbol", "timestamp"} THEN Bare(col)
    ELSE Agg(LowerAgg(aggregation), col)

\* the columns the loop appends an item for
agg_kept(cols, aggregation) ==
    SelectSeq(cols, LAMBDA c : ~(c \in {"symbol", "timestamp"}
                                 /\ aggregation \in AGG4))

\* the items appended for the columns kept
agg_items(kept, aggregation) ==
    [i \in 1..Len(kept) |-> agg_item(kept[i], aggregation)]

\* agg_columns at the end of the loop over select_columns
agg_columns(cols, aggregation) ==
    agg_items(agg_kept(cols, aggregation), aggregation)

\* f"symbol, {', '.join(agg_columns[1:])}": the items, and whether the text
\* ends in a dangling ", " (the join is empty)
grouped_clause(aggs) ==
    [items |-> <<Bare("symbol")>> \o (IF aggs = <<>> THEN <<>> ELSE Tail(aggs)),
     dangling |-> (Len(aggs) <= 1)]

\* the select clause for the columns cols
clause_of(cols, aggregation) ==
    IF aggregation = ""
    THEN [items |-> [i \in 1..Len(cols) |-> Bare(cols[i])], dangling |-> FALSE]
    ELSE IF aggregation \in AGG4
    THEN grouped_clause(agg_columns(cols, aggregation))
    ELSE [items |-> agg_columns(cols, aggregation), dangling |-> FALSE]

\* select_clause when the aggregation step is done
select_clause(extraction) ==
    clause_of(select_columns(extraction), extraction.aggregation)

\* the time condition of the WHERE clause and its parameters, as
\* _build_time_filter gives them for a time_range that is set
time_part(extraction) ==
    IF extraction.time_range # <<>>
    THEN build_time_filter(extraction.time_range)
    ELSE [condition |-> NoCondition, params |-> <<>>]

time_condition(extraction) == time_part(extraction).condition

\* the regular query with the WHERE parts given
regular_query(extraction, tf) ==
    [sql_query |->
        [select |-> select_clause(extraction),
         where_symbol |-> IF extraction.symbols # <<>> THEN "in" ELSE "none",
         placeholders |-> Len(extraction.symbols),
         time_condition |-> tf.condition,
         group_by |-> (extraction.aggregation \in AGG4),
         order_by |-> "timestamp DESC",
         limit |-> IF extraction.aggregation = ""
                   THEN single_query_limit ELSE 0],
      params |-> extraction.symbols
                 \o (IF tf.condition.empty THEN <<>> ELSE tf.params),
      is_multi_query |-> FALSE]

\* the single-query branch of _build_dynamic_sql_query
single_query(extraction) == regular_query(extraction, time_part(extraction))

\* the builder without the per-symbol branch for comparisons
build_without_fanout(extraction) == single_query(extraction)

\* _build_dynamic_sql_query: (sql_query, params, is_multi_query); the query
\* text is kept as its clauses
build_dynamic_sql_query(extraction) ==
    IF extraction.intent = "comparison" /\ Len(extraction.symbols) > 1
    THEN [sql_query |->
            [select |-> select_clause(extraction), where_symbol |-> "eq",
             placeholders |-> 1,
             time_condition |-> time_condition(extraction),
             group_by |-> FALSE, order_by |-> "timestamp DESC",
             limit |-> records_per_symbol],
          params |-> extraction.symbols,
          is_multi_query |-> TRUE]
    ELSE single_query(extraction)

(***************************************************************************)
(* Statement execution: what the store returns for a built query.          *)
(***************************************************************************)
\* the aggregate functions SQLite knows among the aggregation names used
sql_aggregates == {"avg", "sum", "max", "min", "count"}

\* the key a select item gets in the result row
KeyOf(item) == IF item.fn = "" THEN <<item.col>> ELSE <<item.fn, item.col>>

\* cursor.execute raises: malformed select list, unknown column or function,
\* or a wrong number of bound parameters
StatementFails(q, params) ==
    \/ q.select.dangling
    \/ \E i \in 1..Len(q.select.items) :
          \/ q.select.items[i].col \notin table_columns
          \/ q.select.items[i].fn \notin sql_aggregates \cup {""}
    \/ Len(params) # q.placeholders

HasAggregate(q) ==
    \E i \in 1..Len(q.select.items) : q.select.items[i].fn # ""

\* the rows that pass the WHERE clause, in rowid order
Matching(tbl, q, params, day) ==
    LET pass(r) ==
            /\ q.where_symbol # "none" => r.symbol \in Range(params)
            /\ SatisfiesCond(q.time_condition, r.timestamp, day)
    IN  SelectSeq(tbl, pass)

RECURSIVE FlattenRange(_, _, _)
FlattenRange(ss, lo, hi) ==
    IF lo > hi THEN <<>>
    ELSE IF lo = hi THEN ss[lo]
    ELSE LET mid == (lo + hi) \div 2
         IN  FlattenRange(ss, lo, mid) \o FlattenRange(ss, mid + 1, hi)

SortedDesc(S) ==
    [k \in 1..Cardinality(S) |->
        CHOOSE t \in S : Cardinality({u \in S : u > t}) = k - 1]

\* ORDER BY timestamp ASC
OrderByTimestampAsc(rows, scan) ==
    LET ts == Reverse(SortedDesc({rows[i].timestamp : i \in 1..Len(rows)}))
        buckets == [k \in 1..Len(ts) |->
                       SelectSeq(rows, LAMBDA r : r.timestamp = ts[k])]
    IN  FlattenRange(buckets, 1, Len(buckets))

\* ORDER BY timestamp DESC.  SQL leaves the order of rows with equal
\* timestamps to the engine: a forward scan yields them in rowid order, a
\* backward index scan in reverse rowid order.
OrderByTimestampDesc(rows, scan) ==
    LET ts == SortedDesc({rows[i].timestamp : i \in 1..Len(rows)})
        bucket(t) ==
            LET same(r) == r.timestamp = t
            IN  IF scan = "forward" THEN SelectSeq(rows, same)
                ELSE Reverse(SelectSeq(rows, same))
        buckets == [k \in 1..Len(ts) |-> bucket(ts[k])]
    IN  FlattenRange(buckets, 1, Len(buckets))

\* one cell of a stored row
Cell(r, col) ==
    CASE col = "symbol" -> r.symbol
      [] col = "timestamp" -> r.timestamp
      [] col = "id" -> r.id
      [] OTHER -> [col |-> col, row |-> r.id]

\* dict(row) of a plain row
ProjectRow(r, items) ==
    [key \in {KeyOf(items[i]) : i \in 1..Len(items)} |-> Cell(r, key[1])]

\* dict(row) of an aggregate row over the rows rs; a bare column takes its
\* value from one row of the group (rep), or NULL when the group is empty
AggregateRow(rs, rep, items) ==
    LET cell(item) ==
            IF item.fn # ""
            THEN [fn |-> item.fn, col |-> item.col,
                  over |-> {rs[i].id : i \in 1..Len(rs)}]
            ELSE IF rs = <<>>
            THEN (IF item.col = "timestamp" THEN NullTs ELSE Null)
            ELSE Cell(rep, item.col)
    IN  [key \in {KeyOf(items[i]) : i \in 1..Len(items)} |->
            cell(CHOOSE it \in Range(items) : KeyOf(it) = key)]

\* the row of a group a bare column is read from
Representative(rs, scan) == IF scan = "forward" THEN rs[Len(rs)] ELSE rs[1]

\* LIMIT n, when the statement has one
Limit(rows, n) == IF n > 0 THEN Take(rows, n) ELSE rows

\* [dict(row) for row in results] of plain rows
Project(rows, items) == [i \in 1..Len(rows) |-> ProjectRow(rows[i], items)]

\* a plain statement: ordered, limited, projected
PlainRows(matched, q, scan) ==
    Project(Limit(OrderByTimestampDesc(matched, scan), q.limit),
            q.select.items)

\* an aggregate without GROUP BY yields exactly one row
UngroupedRow(matched, q, scan) ==
    <<AggregateRow(matched,
                   IF matched = <<>> THEN Null
                   ELSE Representative(matched, scan),
                   q.select.items)>>

\* the rows of one symbol among the matched rows
Group(matched, s) == SelectSeq(matched, LAMBDA r : r.symbol = s)

\* the representative rows of the groups of GROUP BY symbol, in rowid order
GroupRepresentatives(matched, syms, scan) ==
    [i \in 1..Cardinality(syms) |->
        Representative(
            Group(matched,
                  CHOOSE s \in syms :
                      Cardinality({u \in syms :
                          Representative(Group(matched, u), scan).id
                          < Representative(Group(matched, s), scan).id})
                      = i - 1),
            scan)]

\* one aggregate row per group, for the representatives reps
GroupRows(matched, reps, items) ==
    [i \in 1..Len(reps) |->
        AggregateRow(Group(matched, reps[i].symbol), reps[i], items)]

\* GROUP BY symbol: one row per symbol, ordered by the timestamp of the
\* representative row
GroupedRows(matched, q, scan) ==
    GroupRows(matched,
              Limit(OrderByTimestampDesc(
                        GroupRepresentatives(
                            matched,
                            {matched[i].symbol : i \in 1..Len(matched)},
                            scan),
                        scan),
                    q.limit),
              q.select.items)

\* the result rows for the rows that pass the WHERE clause
ResultRows(matched, q, scan) ==
    IF ~HasAggregate(q) THEN PlainRows(matched, q, scan)
    ELSE IF ~q.group_by THEN UngroupedRow(matched, q, scan)
    ELSE GroupedRows(matched, q, scan)

\* cursor.execute(sql_query, params); cursor.fetchall(), as dicts
FetchAll(tbl, q, params, day, scan) ==
    ResultRows(Matching(tbl, q, params, day), q, scan)

(***************************************************************************)
(* Python values: a returned value is tagged with its type.                *)
(***************************************************************************)
PyList(items) == [type |-> "list", items |-> items]
PyDict(d) == [type |-> "dict", d |-> d]
PyExtraction(e) == [type |-> "StockQueryExtraction", v |-> e]
PyRaised(exc) == [type |-> "raised", exc |-> exc]

\* dict.get(key, default)
Get(d, key, default) == IF key \in DOMAIN d THEN d[key] ELSE default

\* a dict left as it is
WithoutNothing(d, key) == d

\* del d[key], with the KeyError swallowed
Without(d, key) == [k \in DOMAIN d \ {key} |-> d[k]]

\* the order of Python's str comparison on the symbols of the model
StrRank(s) ==
    CASE s = "" -> 0
      [] s = "AAPL" -> 1
      [] s = "BTC" -> 2
      [] s = "BTC-USD" -> 3
      [] s = "MSFT" -> 4
      [] OTHER -> 5

\* x.get('timestamp', '') of a row without the key: '' sorts below every text
EmptyTs == -2

\* the sort key lambda x: (x.get('symbol', ''), x.get('timestamp', ''))
SortKey(x) ==
    <<Get(x, <<"symbol">>, ""), Get(x, <<"timestamp">>, EmptyTs)>>

\* comparing None with a str raises TypeError; a comparison sort of a list
\* that holds both kinds of key has to make such a comparison
SortRaises(data) ==
    \E i, j \in 1..Len(data) :
        LET a == SortKey(data[i])
            b == SortKey(data[j])
        IN  \/ (a[1] = Null) # (b[1] = Null)
            \/ a[1] = b[1] /\ ((a[2] = NullTs) # (b[2] = NullTs))

\* all_data.sort(key=...) without reverse=True: ascending and stable
SortedAscMerged(data) ==
    LET code(x) == StrRank(SortKey(x)[1]) * 1000 + SortKey(x)[2] + 2
        codes == Reverse(SortedDesc({code(data[i]) : i \in 1..Len(data)}))
        buckets == [k \in 1..Len(codes) |->
                       SelectSeq(data, LAMBDA x : code(x) = codes[k])]
    IN  FlattenRange(buckets, 1, Len(buckets))

\* all_data.sort(key=..., reverse=True): descending and stable
SortedMerged(data) ==
    LET code(x) == StrRank(SortKey(x)[1]) * 1000 + SortKey(x)[2] + 2
        codes == SortedDesc({code(data[i]) : i \in 1..Len(data)})
        buckets == [k \in 1..Len(codes) |->
                       SelectSeq(data, LAMBDA x : code(x) = codes[k])]
    IN  FlattenRange(buckets, 1, Len(buckets))

(***************************************************************************)
(* Summaries (the branches of the intents explored here).                  *)
(***************************************************************************)
Msg(text, n) == [text |-> text, n |-> n]

\* a scan that stops at the first row
SymbolsInHead(data) ==
    {Get(data[i], <<"symbol">>, Null) : i \in {1}} \ {Null, ""}

\* the symbols of the rows of data, as row.get("symbol") sees them (a None
\* or empty symbol is skipped)
SymbolsIn(data) ==
    {Get(data[i], <<"symbol">>, Null) : i \in 1..Len(data)} \ {Null, ""}

\* a loop that keeps the last row of a symbol instead of the first
LastRowOf(data, s) ==
    data[CHOOSE i \in 1..Len(data) :
            /\ Get(data[i], <<"symbol">>, Null) = s
            /\ \A j \in (i + 1)..Len(data) :
                  Get(data[j], <<"symbol">>, Null) # s]

\* the row the loop "if symbol and symbol not in latest" keeps for s: the
\* first one in the order of data
FirstRowOf(data, s) ==
    data[CHOOSE i \in 1..Len(data) :
            /\ Get(data[i], <<"symbol">>, Null) = s
            /\ \A j \in 1..(i - 1) : Get(data[j], <<"symbol">>, Null) # s]

WithTimeRange(summary, extraction) ==
    IF extraction.time_range # <<>>
    THEN [k \in DOMAIN summary \cup {"time_range"} |->
            IF k = "time_range" THEN extraction.time_range ELSE summary[k]]
    ELSE summary

\* Values the summary computes with.  Where the code looks into the value of
\* a cell (truthiness, arithmetic, "is not None"), the cell is a typed
\* value; a float is counted in units of 0.0001.
PyNone == [type |-> "NoneType"]
PyInt(n) == [type |-> "int", v |-> n]
PyFloat(n) == [type |-> "float", v |-> n]
PyStr(t) == [type |-> "str", v |-> t]

\* bool(x)
Truthy(x) ==
    CASE x.type = "NoneType" -> FALSE
      [] x.type \in {"int", "float"} -> x.v # 0
      [] x.type = "str" -> x.v # ""
      [] OTHER -> TRUE

\* [row.get(key) for row in data if row.get(key)]
truthy_values(data, key) ==
    LET has(row) == key \in DOMAIN row /\ Truthy(row[key])
        rows == SelectSeq(data, has)
    IN  [i \in 1..Len(rows) |-> rows[i][key]]

\* sum(values) raises TypeError when a value is no number
SumRaises(values) ==
    \E i \in 1..Len(values) : values[i].type \notin {"int", "float"}

RECURSIVE Sum(_)
Sum(values) ==
    IF values = <<>> THEN 0 ELSE Head(values).v + Sum(Tail(values))

\* sum(values) / len(values), in the unit of the values, cut to a whole
\* number of units (int(...) for volumes, round(..., 4) for volatilities)
Mean(values) == Sum(values) \div Len(values)

EmptySummary == [k \in {} |-> Null]

\* the volatility branch
volatility_summary(values) ==
    IF values # <<>>
    THEN [average_volatility |-> Mean(values),
          message |-> Msg("Average volatility", Mean(values))]
    ELSE EmptySummary

\* the volume branch when the aggregated key is not found
volume_summary(values) ==
    IF values # <<>>
    THEN [average_volume |-> Mean(values),
          message |-> Msg("Average volume", Mean(values))]
    ELSE EmptySummary

technical_metrics == {"ma5", "ma10", "ma20", "rsi", "atr"}

\* technical_data of one row: the indicators present and not None
technical_data(row) ==
    LET present == {m \in technical_metrics :
                       /\ <<m>> \in DOMAIN row
                       /\ row[<<m>>].type # "NoneType"}
    IN  [m \in present |-> row[<<m>>]]

\* len(set(row.get('symbol') for row in data)): None counts as a value
symbol_values(data) ==
    {Get(data[i], <<"symbol">>, Null) : i \in 1..Len(data)}

\* an exception inside the try block: sum() over values that are no
\* numbers, in the volatility and the volume branch
summary_raises(extraction, data) ==
    CASE extraction.intent = "volatility" ->
            /\ <<"volatility">> \in DOMAIN data[1]
            /\ SumRaises(truthy_values(data, <<"volatility">>))
      [] extraction.intent = "volume" ->
            /\ ~(extraction.aggregation # ""
                 /\ <<"avg", "volume">> \in DOMAIN data[1])
            /\ SumRaises(truthy_values(data, <<"volume">>))
      [] OTHER -> FALSE

\* the generic count message: {"message": f"Retrieved {len(data)} records"}
count_summary(data) == [message |-> Msg("Retrieved records", Len(data))]

\* the except branch: summary["message"] = data (no key was set before
\* sum() raised)
except_summary(data) == [message |-> PyList(data)]

\* the try block of _generate_result_summary when nothing raises
summary_body(extraction, data) ==
    WithTimeRange(
        IF extraction.intent = "price"
        THEN IF extraction.aggregation # ""
             THEN [message |-> Msg("Price analysis with aggregation", 0)]
             ELSE LET latest_prices ==
                         [s \in SymbolsIn(data) |->
                             Get(FirstRowOf(data, s), <<"close">>, Null)]
                  IN  [latest_prices |-> latest_prices,
                       message |-> Msg("Current prices for symbols",
                                       Cardinality(DOMAIN latest_prices))]
        ELSE IF extraction.intent = "comparison"
        THEN [symbols_compared |-> SymbolsIn(data),
              message |-> Msg("Comparison data for symbols",
                              Cardinality(SymbolsIn(data))),
              latest_values |->
                 [s \in SymbolsIn(data) |->
                     Without(FirstRowOf(data, s), <<"id">>)]]
        ELSE IF extraction.intent = "volatility"
        THEN IF <<"volatility">> \in DOMAIN data[1]
             THEN volatility_summary(truthy_values(data, <<"volatility">>))
             ELSE EmptySummary
        ELSE IF extraction.intent = "technical"
        THEN [message |-> Msg("Technical indicators for symbols",
                              Cardinality(symbol_values(data))),
              technical_indicators |->
                 [s \in SymbolsIn(data) |->
                     technical_data(FirstRowOf(data, s))]]
        ELSE IF extraction.intent = "volume"
        THEN IF extraction.aggregation # ""
                /\ <<"avg", "volume">> \in DOMAIN data[1]
             THEN [message |-> Msg("Volume analysis with aggregation", 0)]
             ELSE volume_summary(truthy_values(data, <<"volume">>))
        ELSE [message |-> Msg("Retrieved records", Len(data))],
        extraction)

\* _generate_result_summary
generate_result_summary(extraction, data) ==
    IF data = <<>>
    THEN [message |-> Msg("No data found for the specified criteria", 0)]
    ELSE IF summary_raises(extraction, data)
    THEN except_summary(data)
    ELSE summary_body(extraction, data)

(***************************************************************************)
(* execute_dynamic_query and query_market_data_hybrid.                     *)
(***************************************************************************)
QueryInfo(extraction) ==
    [symbols |-> extraction.symbols, intent |-> extraction.intent,
     time_range |-> extraction.time_range, metrics |-> extraction.metrics,
     aggregation |-> extraction.aggregation]

\* an error dict without its timestamp
ErrorResultNoTimestamp(extraction, exc, day) ==
    [status |-> "error", error |-> exc,
     query_info |-> [symbols |-> extraction.symbols,
                     intent |-> extraction.intent,
                     time_range |-> extraction.time_range]]

\* an error dict without its query_info
ErrorResultNoInfo(extraction, exc, day) ==
    [status |-> "error", error |-> exc, timestamp |-> day]

\* the dict built in the except branch of execute_dynamic_query
ErrorResult(extraction, exc, day) ==
    [status |-> "error", error |-> exc,
     query_info |-> [symbols |-> extraction.symbols,
                     intent |-> extraction.intent,
                     time_range |-> extraction.time_range],
     timestamp |-> day]

SuccessResult(extraction, sql, data, day) ==
    [status |-> "success", query_info |-> QueryInfo(extraction),
     sql_query |-> sql, record_count |-> Len(data), data |-> data,
     summary |-> generate_result_summary(extraction, data),
     timestamp |-> day]

\* the end of the multi-query branch: sort, summarise, return
merged_result(all_data, q, symbols, extraction, day) ==
    IF SortRaises(all_data)
    THEN [ret |-> ErrorResult(extraction, "TypeError", day),
          connects |-> Len(symbols)]
    ELSE [ret |-> SuccessResult(extraction,
                                [multiple |-> Len(symbols), query |-> q],
                                SortedMerged(all_data), day),
          connects |-> Len(symbols)]

\* the multi-query branch: one statement per symbol, each on a connection
\* of its own, the results concatenated in the order of the symbols
execute_multi(q, symbols, extraction, tbl, day, db_up, scan) ==
    IF ~db_up \/ StatementFails(q, <<symbols[1]>>)
    THEN [ret |-> ErrorResult(extraction, "OperationalError", day),
          connects |-> 1]
    ELSE merged_result(
             FlattenRange([i \in 1..Len(symbols) |->
                              FetchAll(tbl, q, <<symbols[i]>>, day, scan)],
                          1, Len(symbols)),
             q, symbols, extraction, day)

\* the regular branch: one statement on one connection
execute_single(q, params, extraction, tbl, day, db_up, scan) ==
    IF ~db_up \/ StatementFails(q, params)
    THEN [ret |-> ErrorResult(extraction, "OperationalError", day),
          connects |-> 1]
    ELSE [ret |-> SuccessResult(extraction, q,
                                FetchAll(tbl, q, params, day, scan), day),
          connects |-> 1]

\* execute_dynamic_query once the query is built
execute_built(qr, extraction, tbl, day, db_up, scan) ==
    IF qr.is_multi_query
    THEN execute_multi(qr.sql_query, qr.params, extraction, tbl, day, db_up,
                       scan)
    ELSE execute_single(qr.sql_query, qr.params, extraction, tbl, day, db_up,
                        scan)

\* execute_dynamic_query: the returned dict and the number of connections
\* opened to the store
execute_dynamic_query(extraction, tbl, day, db_up, scan) ==
    execute_built(build_dynamic_sql_query(extraction), extraction, tbl, day,
                  db_up, scan)

NotExecuted == [status |-> "not executed"]

\* extract_symbol_from_query: the chain is built outside the try block, so
\* a missing self.llm raises; a failure of chain.invoke is caught and []
\* is returned
extract_symbol_from_query(outcome, llm) ==
    IF ~llm THEN PyRaised("AttributeError")
    ELSE IF outcome.kind = "raise" THEN PyList(<<>>)
    ELSE PyExtraction(outcome.extraction)

\* bool(extracted_query) of an extraction: the symbols are not looked at
HasExtraction(extracted_query) ==
    extracted_query.type = "StockQueryExtraction"

\* bool(extracted_query and extracted_query.symbols)
HasSymbols(extracted_query) ==
    /\ extracted_query.type = "StockQueryExtraction"
    /\ extracted_query.v.symbols # <<>>

\* the return of query_market_data_hybrid after execute_dynamic_query: the
\* sql_query key is deleted from the result
stripped(extracted_query, ex) ==
    [extracted |-> extracted_query, executed |-> ex.ret,
     returned |-> PyDict(Without(ex.ret, "sql_query")),
     connects |-> ex.connects, raised |-> FALSE]

\* query_market_data_hybrid after the extraction
hybrid_after(extracted_query, tbl, day, db_up, scan) ==
    IF extracted_query.type = "raised"
    THEN [extracted |-> extracted_query, executed |-> NotExecuted,
          returned |-> PyDict([query |-> "query",
                               error |-> extracted_query.exc,
                               status |-> "error", timestamp |-> day]),
          connects |-> 0, raised |-> FALSE]
    ELSE IF HasSymbols(extracted_query)
    THEN stripped(extracted_query,
                  execute_dynamic_query(extracted_query.v, tbl, day, db_up,
                                        scan))
    ELSE [extracted |-> extracted_query, executed |-> NotExecuted,
          returned |-> PyList(<<>>), connects |-> 0, raised |-> FALSE]

\* query_market_data_hybrid
query_market_data_hybrid(outcome, tbl, day, llm, db_up, scan) ==
    hybrid_after(extract_symbol_from_query(outcome, llm), tbl, day, db_up,
                 scan)

(***************************************************************************)
(* Conversation memory: memory/conv_memory.py, SQLiteConversationMemory.   *)
(* A clock reading is a count of microseconds, MicrosPerSecond of them to  *)
(* the second.                                                             *)
(***************************************************************************)
\* datetime.utcnow().isoformat() + "Z": the text carries the fraction of the
\* second only when the microsecond is not 0
isoformat(t) ==
    [second |-> t \div MicrosPerSecond,
     fraction |-> IF t % MicrosPerSecond = 0 THEN <<>>
                  ELSE <<t % MicrosPerSecond>>]

\* the order of two such texts as SQLite compares TEXT (byte by byte): the
\* seconds have equal width; after them "." sorts below "Z", and fractions
\* have equal width
TextLess(a, b) ==
    \/ a.second < b.second
    \/ /\ a.second = b.second
       /\ \/ a.fraction # <<>> /\ b.fraction = <<>>
          \/ /\ a.fraction # <<>>
             /\ b.fraction # <<>>
             /\ a.fraction[1] < b.fraction[1]

\* ORDER BY timestamp: ascending by the text; rows with equal texts are
\* left in rowid order
OrderByTimestamp(rows) ==
    LET rank(i) ==
            Cardinality({j \in 1..Len(rows) :
                \/ TextLess(rows[j].timestamp, rows[i].timestamp)
                \/ rows[j].timestamp = rows[i].timestamp /\ j < i})
    IN  [k \in 1..Len(rows) |->
            rows[CHOOSE i \in 1..Len(rows) : rank(i) = k - 1]]

\* str(uuid.uuid4()): an id no chat has yet
uuid4(n) ==
    CASE n = 0 -> "uuid-1"
      [] n = 1 -> "uuid-2"
      [] n = 2 -> "uuid-3"
      [] n = 3 -> "uuid-4"
      [] n = 4 -> "uuid-5"
      [] n = 5 -> "uuid-6"
      [] n = 6 -> "uuid-7"
      [] OTHER -> "uuid-8"

ChatExists(tbl, chat_id) == \E i \in 1..Len(tbl) : tbl[i].id = chat_id

\* create_chat(chat_id) read at clock t: an empty id is replaced by a fresh
\* uuid; INSERT INTO chats raises on an id that exists (PRIMARY KEY)
create_chat(tbl, chat_id, t) ==
    LET id == IF chat_id = "" THEN uuid4(Len(tbl)) ELSE chat_id
    IN  IF ChatExists(tbl, id)
        THEN [raised |-> TRUE, chats |-> tbl, id |-> id]
        ELSE [raised |-> FALSE,
              chats |-> Append(tbl, [id |-> id, title |-> "New Chat",
                                     created_at |-> isoformat(t),
                                     updated_at |-> isoformat(t)]),
              id |-> id]

\* the chats table after the check "if not chat: self.create_chat(chat_id)"
chats_after_check(tbl, chat_id, t) ==
    IF ChatExists(tbl, chat_id) THEN tbl
    ELSE create_chat(tbl, chat_id, t).chats

\* UPDATE chats SET updated_at = ? WHERE id = ?
touch_chat(tbl, chat_id, stamp) ==
    [i \in 1..Len(tbl) |->
        IF tbl[i].id = chat_id THEN [tbl[i] EXCEPT !.updated_at = stamp]
        ELSE tbl[i]]

\* save_message: the tables and the clock after the call, and the value
\* returned; create_chat reads the clock one microsecond on, the message is
\* stamped step microseconds after that
save_message(ch, msgs, t, chat_id, role, content, step, db_up) ==
    IF ~db_up
    THEN [chats |-> ch, messages |-> msgs, clock |-> t, returned |-> FALSE]
    ELSE LET created == ~ChatExists(ch, chat_id)
             t1 == IF created THEN t + 1 ELSE t
             ch1 == chats_after_check(ch, chat_id, t1)
             t2 == t1 + step
         IN  [chats |-> touch_chat(ch1, chat_id, isoformat(t2)),
              messages |->
                 Append(msgs, [id |-> Len(msgs) + 1, chat_id |-> chat_id,
                               role |-> role, content |-> content,
                               timestamp |-> isoformat(t2)]),
              clock |-> t2,
              returned |-> TRUE]

\* load_chat_history: the list returned ([] when the store cannot be
\* reached)
load_chat_history(msgs, chat_id, db_up) ==
    IF ~db_up THEN <<>>
    ELSE LET rows == OrderByTimestamp(
                        SelectSeq(msgs, LAMBDA m : m.chat_id = chat_id))
         IN  [i \in 1..Len(rows) |->
                [role |-> rows[i].role, content |-> rows[i].content,
                 timestamp |-> rows[i].timestamp]]

(***************************************************************************)
(* Inputs.                                                                 *)
(***************************************************************************)
SymbolLists ==
    {<<>>, <<"AAPL">>, <<"BTC">>, <<"AAPL", "MSFT">>, <<"MSFT", "AAPL">>,
     <<"AAPL", "AAPL">>}

Intents == {"price", "comparison"}

TimeRanges == {<<>>, <<Word("last"), Word("week")>>}

MetricLists == {<<>>, <<"close">>}

Aggregations == {"", "avg", "count"}

Extractions ==
    [symbols : SymbolLists, intent : Intents, time_range : TimeRanges,
     metrics : MetricLists, aggregation : Aggregations]

Outcomes ==
    {[kind |-> "raise"]}
    \cup {[kind |-> "ok", extraction |-> e] : e \in Extractions}

Scans == {"forward", "backward"}

\* the extractions execute_dynamic_query is called with directly
DirectExtractions == {e \in Extractions : e.symbols = <<>>}

\* the extractions the builder is applied to on its own
BuildSymbolLists == {<<>>, <<"AAPL">>, <<"AAPL", "MSFT">>}

BuildIntents ==
    {"price", "volume", "volatility", "technical", "trend", "comparison",
     "change", "other", ""}

BuildTimeRanges ==
    {<<>>, <<Word("today")>>, <<Num(7), Word("days")>>,
     <<Word("last"), Num(7), Word("days")>>}

BuildMetricLists ==
    {<<>>, <<"close">>, <<"high">>, <<"close", "rsi">>,
     <<"close", "rsi", "close">>, <<"timestamp", "volume">>,
     <<"rsi", "ma5", "volume">>}

BuildAggregations == {"", "avg", "sum", "max", "min", "count"}

BuildExtractions ==
    [symbols : BuildSymbolLists, intent : BuildIntents,
     time_range : BuildTimeRanges, metrics : BuildMetricLists,
     aggregation : BuildAggregations]

\* the time phrases _build_time_filter is applied to on its own
Vocabulary ==
    {<<Word("today")>>, <<Word("yesterday")>>,
     <<Word("last"), Word("week")>>, <<Word("this"), Word("week")>>,
     <<Word("last"), Word("month")>>, <<Word("this"), Word("month")>>,
     <<Word("last"), Word("year")>>, <<Word("this"), Word("year")>>}

UnitWords == {"day", "days", "week", "weeks", "month", "months"}

TokenCases(t) ==
    IF t.k = "word"
    THEN {Word(t.w), Word(Capitalised(t.w)), Word(Upper(t.w))}
    ELSE {t}

\* a phrase in every letter case of its words
CaseVariants(p) ==
    CASE Len(p) = 0 -> {p}
      [] Len(p) = 1 -> {<<a>> : a \in TokenCases(p[1])}
      [] Len(p) = 2 ->
            {<<a, b>> : a \in TokenCases(p[1]), b \in TokenCases(p[2])}
      [] OTHER ->
            {<<a, b, c>> : a \in TokenCases(p[1]), b \in TokenCases(p[2]),
                           c \in TokenCases(p[3])}

NumericPhrases ==
    {<<Num(n), Word(u)>> : n \in 0..MaxCount, u \in UnitWords}
    \cup {<<Num(7), Word("days"), Word("ago")>>}

PrefixedPhrases ==
    {<<Word(pre), Num(n), Word(u)>> :
        pre \in {"last", "previous"}, n \in {1, 7}, u \in UnitWords}

OtherPhrases ==
    {<<>>, <<Word("tomorrow")>>, <<Word("next"), Word("week")>>,
     <<Word("week")>>, <<Num(7)>>, <<Word("last"), Word("days")>>,
     <<Word("last"), Word("week"), Word("ago")>>,
     <<Word("days"), Num(7)>>}

TimePhrases ==
    UNION {CaseVariants(p) :
             p \in Vocabulary \cup NumericPhrases \cup PrefixedPhrases
                   \cup OtherPhrases}

\* the extractions and fetched rows the result of execute_dynamic_query is
\* built from on its own.  A result key holds what its select expression
\* yields: a number or None for a stored column, and the text of the symbol
\* where the metric is the symbol column under the name of a numeric one.
SummaryIntents ==
    {"price", "comparison", "volatility", "technical", "volume", "trend"}

AliasMetric(name) ==
    CASE name = "volume" -> <<"symbol AS volume">>
      [] name = "volatility" -> <<"symbol AS volatility">>
      [] OTHER -> <<>>

SummaryExtractions ==
    [symbols : {<<>>}, intent : SummaryIntents,
     time_range : {<<>>, <<Word("last"), Word("week")>>},
     metrics : {<<>>, AliasMetric("volume"), AliasMetric("volatility")},
     aggregation : {"", "avg"}]

\* the value of a cell of the given kind in a row of the symbol sym
CellValue(kind, sym) ==
    CASE kind = "none" -> PyNone
      [] kind = "zero" -> PyInt(0)
      [] kind = "volume" -> PyInt(1200)
      [] kind = "volatility" -> PyFloat(250)
      [] kind = "rsi" -> PyFloat(550000)
      [] OTHER -> PyStr(sym)

PlainRow(sym, key, kind) ==
    (<<"symbol">> :> sym) @@ (<<"timestamp">> :> StartDay)
    @@ (<<key>> :> CellValue(kind, sym))
    @@ (CASE kind = "text" -> [k \in {} |-> PyNone]
          [] key = "rsi" -> <<"atr">> :> PyFloat(20000)
          [] OTHER -> <<"close">> :> PyFloat(1000000))

AvgVolumeRow(sym) ==
    (<<"symbol">> :> sym) @@ (<<"avg", "volume">> :> PyFloat(12000000))

\* the shapes of the rows a fetched list is made of
RowShapes ==
    <<[sym |-> "AAPL", key |-> "volume", kind |-> "none"],
      [sym |-> "AAPL", key |-> "volume", kind |-> "zero"],
      [sym |-> "AAPL", key |-> "volume", kind |-> "volume"],
      [sym |-> "MSFT", key |-> "volume", kind |-> "volume"],
      [sym |-> "AAPL", key |-> "volume", kind |-> "text"],
      [sym |-> "MSFT", key |-> "volume", kind |-> "text"],
      [sym |-> "AAPL", key |-> "volatility", kind |-> "none"],
      [sym |-> "AAPL", key |-> "volatility", kind |-> "volatility"],
      [sym |-> "AAPL", key |-> "volatility", kind |-> "text"],
      [sym |-> "AAPL", key |-> "rsi", kind |-> "none"],
      [sym |-> "AAPL", key |-> "rsi", kind |-> "rsi"],
      [sym |-> "AAPL", key |-> "avg_volume", kind |-> "volume"]>>

RowOf(shape) ==
    IF shape.key = "avg_volume" THEN AvgVolumeRow(shape.sym)
    ELSE PlainRow(shape.sym, shape.key, shape.kind)

\* the fetched lists, each given by the places of its rows in RowShapes
SummaryPicks == UNION {[1..n -> 1..Len(RowShapes)] : n \in 0..MaxRows}

\* the statement of the extraction can return the rows picked: text under a
\* numeric name comes from the aliased metric and from nothing else
Returnable(e, pick) ==
    \A i \in 1..Len(pick) :
        LET shape == RowShapes[pick[i]]
        IN  IF e.metrics = <<>> THEN shape.kind # "text"
            ELSE /\ shape.kind = "text"
                 /\ e.metrics = AliasMetric(shape.key)
                 /\ e.aggregation = ""

SummaryData(pick) == [i \in 1..Len(pick) |-> RowOf(RowShapes[pick[i]])]

\* the extractions of single runs of execute_dynamic_query: the intents
\* whose summaries look at no cell value, every symbol the extractor may
\* name among the assets of the model, and one outside them
QueryIntents == {"price", "comparison", "trend", "change", "other", ""}

QuerySymbolLists ==
    {<<>>, <<"AAPL">>, <<"MSFT">>, <<"BTC">>, <<"AAPL", "MSFT">>,
     <<"BTC", "AAPL">>, <<"JPM">>}

QueryExtractions ==
    [symbols : QuerySymbolLists, intent : QueryIntents,
     time_range : TimeRanges, metrics : MetricLists,
     aggregation : Aggregations]

\* the arguments of the conversation memory
ChatIds == {"", "c1", "c2"}
Roles == {"user", "model"}
Contents == {"hello"}

Assets == Range(stocks) \cup Range(cryptos)

\* the sets of assets whose fetch succeeds in one refresh: none, one stock,
\* all of them
FetchOutcomes == {{}, {"AAPL"}, Assets}

NoCall == [op |-> "none"]
NoBuild == [op |-> "none"]

\* the environment of a call, kept with its record: whether the store could
\* be reached
Env(db_up) == [db_up |-> db_up]

\* conversations.db after init_db
NoMemory ==
    /\ chats = <<>>
    /\ messages = <<>>
    /\ clock = 0

Init ==
    /\ store = <<>>
    /\ last_id = 0
    /\ now = StartDay
    /\ llm_set \in BOOLEAN
    /\ refreshes = 0
    /\ call = NoCall
    /\ built = NoBuild
    /\ NoMemory

\* fetch_and_update_market_data: the dict returned, or the exception
\* re-raised when nothing was fetched (nothing is stored then)
FetchAndUpdate ==
    /\ call = NoCall
    /\ refreshes < MaxRefresh
    /\ \E fetched \in FetchOutcomes :
         LET market_data == fetch_market_data(fetched, now)
         IN  IF market_data = <<>>
             THEN /\ call' = [op |-> "fetch_and_update_market_data",
                              raised |-> TRUE, status |-> "", records |-> 0]
                  /\ UNCHANGED <<store, last_id, refreshes>>
             ELSE /\ store' = store_market_data(store, last_id, market_data)
                  /\ last_id' = last_id + RecordsIn(market_data)
                  /\ refreshes' = refreshes + 1
                  /\ call' = [op |-> "fetch_and_update_market_data",
                              raised |-> FALSE, status |-> "success",
                              records |-> RecordsIn(market_data)]
    /\ UNCHANGED <<now, llm_set, built>>
    /\ UNCHANGED memory

\* the calendar advances
Tick ==
    /\ call = NoCall
    /\ now < StartDay + MaxTick
    /\ now' = now + 1
    /\ UNCHANGED <<store, last_id, llm_set, refreshes, call, built>>
    /\ UNCHANGED memory

\* query_market_data_hybrid(query): the outcome of the extraction stands for
\* the query text and the model's answer to it.  Without self.llm the call
\* ends before the answer, the store or the scan order can matter.
QueryHybrid ==
    /\ call = NoCall
    /\ \E outcome \in Outcomes, db_up \in BOOLEAN, scan \in Scans :
         /\ llm_set \/ (outcome.kind = "raise" /\ db_up /\ scan = "forward")
         /\ call' = [op |-> "query_market_data_hybrid",
                     env |-> Env(db_up)]
                    @@ query_market_data_hybrid(outcome, store, now,
                                                llm_set, db_up, scan)
    /\ UNCHANGED <<store, last_id, now, llm_set, refreshes, built>>
    /\ UNCHANGED memory

\* the record of a direct call of execute_dynamic_query
direct_call(e, db_up, ex) ==
    [op |-> "execute_dynamic_query", env |-> Env(db_up),
     extracted |-> PyExtraction(e), executed |-> ex.ret,
     returned |-> PyDict(ex.ret), connects |-> ex.connects,
     raised |-> FALSE]

\* execute_dynamic_query(extraction) called directly.  Extractions that name
\* symbols reach it through query_market_data_hybrid above; the direct call
\* adds the extractions without symbols.
ExecuteDynamicQuery ==
    /\ call = NoCall
    /\ \E e \in DirectExtractions, db_up \in BOOLEAN, scan \in Scans :
         call' = direct_call(e, db_up,
                             execute_dynamic_query(e, store, now, db_up,
                                                   scan))
    /\ UNCHANGED <<store, last_id, now, llm_set, refreshes, built>>
    /\ UNCHANGED memory

\* the caller takes the returned value; the engine is called synchronously,
\* one call at a time
Return ==
    /\ call # NoCall
    /\ call' = NoCall
    /\ UNCHANGED <<store, last_id, now, llm_set, refreshes, built>>
    /\ UNCHANGED memory

Next == FetchAndUpdate \/ Tick \/ QueryHybrid \/ ExecuteDynamicQuery \/ Return

Spec == Init /\ [][Next]_vars

(***************************************************************************)
(* The query builder on its own: an extraction of BuildExtractions is      *)
(* given, and _build_dynamic_sql_query is applied to it.                   *)
(***************************************************************************)
InitBuild ==
    /\ store = <<>>
    /\ last_id = 0
    /\ now = StartDay
    /\ llm_set = TRUE
    /\ refreshes = 0
    /\ call = NoCall
    /\ \E e \in BuildExtractions :
         built = [op |-> "input", extraction |-> e]
    /\ NoMemory

BuildQuery ==
    /\ built.op = "input"
    /\ built' = [op |-> "_build_dynamic_sql_query",
                 extraction |-> built.extraction,
                 result |-> build_dynamic_sql_query(built.extraction)]
    /\ UNCHANGED <<store, last_id, now, llm_set, refreshes, call>>
    /\ UNCHANGED memory

NextBuild == BuildQuery

SpecBuild == InitBuild /\ [][NextBuild]_vars

(***************************************************************************)
(* The time filter on its own: a phrase of TimePhrases is given, and       *)
(* _build_time_filter is applied to it.                                    *)
(***************************************************************************)
InitTime ==
    /\ store = <<>>
    /\ last_id = 0
    /\ now = StartDay
    /\ llm_set = TRUE
    /\ refreshes = 0
    /\ call = NoCall
    /\ \E p \in TimePhrases :
         built = [op |-> "time_range", time_range |-> p]
    /\ NoMemory

BuildTimeFilter ==
    /\ built.op = "time_range"
    /\ built' = [op |-> "_build_time_filter",
                 time_range |-> built.time_range,
                 result |-> build_time_filter(built.time_range)]
    /\ UNCHANGED <<store, last_id, now, llm_set, refreshes, call>>
    /\ UNCHANGED memory

NextTime == BuildTimeFilter

SpecTime == InitTime /\ [][NextTime]_vars

(***************************************************************************)
(* The result of execute_dynamic_query on its own: an extraction and the   *)
(* rows fetchall returned are given, and the success dict is built.        *)
(***************************************************************************)
InitSummary ==
    /\ store = <<>>
    /\ last_id = 0
    /\ now = StartDay
    /\ llm_set = TRUE
    /\ refreshes = 0
    /\ call = NoCall
    /\ \E e \in SummaryExtractions, pick \in SummaryPicks :
         /\ Returnable(e, pick)
         /\ built = [op |-> "fetched", extraction |-> e,
                     data |-> SummaryData(pick)]
    /\ NoMemory

\* the end of the try block of execute_dynamic_query: result = {...} with
\* the summary of the fetched data; summary_raised notes whether the try
\* block of _generate_result_summary raised
BuildResult ==
    /\ built.op = "fetched"
    /\ built' = [op |-> "execute_dynamic_query",
                 extraction |-> built.extraction,
                 data |-> built.data,
                 summary_raised |->
                    (built.data # <<>>
                     /\ summary_raises(built.extraction, built.data)),
                 result |->
                    SuccessResult(
                        built.extraction,
                        build_dynamic_sql_query(built.extraction).sql_query,
                        built.data, now)]
    /\ UNCHANGED <<store, last_id, now, llm_set, refreshes, call>>
    /\ UNCHANGED memory

NextSummary == BuildResult

SpecSummary == InitSummary /\ [][NextSummary]_vars

(***************************************************************************)
(* execute_dynamic_query run twice.  The store is one that refreshes have  *)
(* filled; between the two runs nothing is stored and the day stays.       *)
(***************************************************************************)
\* the store after one refresh and after a second one on the same day
StoreOnce == store_market_data(<<>>, 0, fetch_market_data(Assets, StartDay))
StoreTwice ==
    store_market_data(StoreOnce, Len(StoreOnce),
                      fetch_market_data(Assets, StartDay))

\* an engine that returns rows with equal timestamps in the other order on
\* the second run
other_plan(scan) == IF scan = "forward" THEN "backward" ELSE "forward"

\* cursor.execute of the same statement on the same unchanged database:
\* SQLite prepares the same plan, so rows with equal ORDER BY keys come out
\* in the order of the first run
same_plan(scan) == scan

InitTwice ==
    /\ store \in {StoreOnce, StoreTwice}
    /\ last_id = Len(store)
    /\ now = StartDay
    /\ llm_set = TRUE
    /\ refreshes = IF store = StoreOnce THEN 1 ELSE 2
    /\ call = NoCall
    /\ built = NoBuild
    /\ NoMemory

\* the first run, with the tie order of the engine noted
FirstRun ==
    /\ call = NoCall
    /\ \E e \in Extractions, scan \in Scans :
         call' = [scan |-> scan]
                 @@ direct_call(e, TRUE,
                                execute_dynamic_query(e, store, now, TRUE,
                                                      scan))
    /\ UNCHANGED <<store, last_id, now, llm_set, refreshes, built>>
    /\ UNCHANGED memory

\* the second run with the same extraction
SecondRun ==
    /\ call.op = "execute_dynamic_query"
    /\ "again" \notin DOMAIN call
    /\ \E db_up \in BOOLEAN :
         call' = [again |->
                    execute_dynamic_query(call.extracted.v, store, now,
                                          db_up, same_plan(call.scan)).ret]
                 @@ call
    /\ UNCHANGED <<store, last_id, now, llm_set, refreshes, built>>
    /\ UNCHANGED memory

NextTwice == FirstRun \/ SecondRun

SpecTwice == InitTwice /\ [][NextTwice]_vars

(***************************************************************************)
(* execute_dynamic_query run once on a store that is empty or that         *)
(* refreshes have filled.                                                  *)
(***************************************************************************)
\* the store after a refresh in which only AAPL was fetched
StoreApple ==
    store_market_data(<<>>, 0, fetch_market_data({"AAPL"}, StartDay))

InitQuery ==
    /\ store \in {<<>>, StoreApple, StoreOnce, StoreTwice}
    /\ last_id = Len(store)
    /\ now = StartDay
    /\ llm_set = TRUE
    /\ refreshes = IF store = <<>> THEN 0
                   ELSE IF store = StoreTwice THEN 2 ELSE 1
    /\ call = NoCall
    /\ built = NoBuild
    /\ NoMemory

RunQuery ==
    /\ call = NoCall
    /\ \E e \in QueryExtractions, db_up \in BOOLEAN, scan \in Scans :
         call' = direct_call(e, db_up,
                             execute_dynamic_query(e, store, now, db_up,
                                                   scan))
    /\ UNCHANGED <<store, last_id, now, llm_set, refreshes, built>>
    /\ UNCHANGED memory

NextQuery == RunQuery

SpecQuery == InitQuery /\ [][NextQuery]_vars

(***************************************************************************)
(* Refreshes with the price columns kept: every fetched frame is           *)
(* validated, the accepted frames are stored in one transaction that may   *)
(* fail at any record, and old rows are cleared.                           *)
(***************************************************************************)
\* a missing value of a frame (numpy.nan)
NaN == [type |-> "nan"]

isnull(cell) == cell.type = "nan"

price_columns == <<"Open", "High", "Low", "Close">>

Bar(o, h, l, c) ==
    [Open |-> PyFloat(o), High |-> PyFloat(h), Low |-> PyFloat(l),
     Close |-> PyFloat(c)]

\* the price rows a fetched frame may hold: an ordinary day, a day without
\* movement, a day with a zero and a negative price, a day whose high lies
\* under its low, and a day whose close is missing
PriceRows ==
    << Bar(100, 110, 90, 105),
       Bar(50, 50, 50, 50),
       Bar(0, 110, -5, 105),
       Bar(100, 90, 95, 92),
       [Bar(100, 110, 90, 105) EXCEPT !.Close = NaN] >>

\* the frames a fetch may return, as the price rows of their days
FrameShapes == << <<1, 2>>, <<1, 3>>, <<4, 1>>, <<2, 5>> >>

\* the frame of a shape: its rows are the latest days in ascending order
Frame(shape, day) ==
    [j \in 1..Len(shape) |->
        [Timestamp |-> day - Len(shape) + j] @@ PriceRows[shape[j]]]

\* a validator that lets every frame pass
accept_all(df) == TRUE

\* validate_data(df) with every required column present: no missing price,
\* no price <= 0, no row with High < Low
validate_data(df) ==
    LET cells == {<<i, c>> : i \in 1..Len(df), c \in Range(price_columns)}
    IN  /\ ~\E x \in cells : isnull(df[x[1]][x[2]])
        /\ ~\E x \in cells : df[x[1]][x[2]].v <= 0
        /\ ~\E i \in 1..Len(df) : df[i].High.v < df[i].Low.v

\* what each asset's fetch returned: 0 for None, else a shape (every
\* outcome for AAPL, nothing or the sound frame for the other assets)
Offers ==
    {o \in [Assets -> 0..Len(FrameShapes)] :
        \A a \in Assets \ {"AAPL"} : o[a] <= 1}

\* fetch_market_data with the frames kept: the dict symbol -> frame, in
\* insertion order, of the assets whose fetch returned a frame that
\* validate_data accepts
fetch_market_frames(offered, day) ==
    LET ok(s) == /\ offered[s] # 0
                 /\ validate_data(Frame(FrameShapes[offered[s]], day))
        st == SelectSeq(stocks, ok)
        cr == SelectSeq(cryptos, ok)
        entry(key, s) ==
            [symbol |-> key, df |-> Frame(FrameShapes[offered[s]], day)]
    IN  [i \in 1..Len(st) |-> entry(st[i], st[i])]
        \o [i \in 1..Len(cr) |-> entry(CryptoKey(cr[i]), cr[i])]

\* float(row[c]) if pd.notna(row[c]) else None
float_or_none(cell) == IF isnull(cell) THEN PyNone ELSE cell

\* the stock_record tuples of one refresh with their price columns, in the
\* order of the two loops, each with the id AUTOINCREMENT gives it
priced_records(idc, market_data) ==
    LET recs == Flatten([i \in 1..Len(market_data) |->
                    [j \in 1..Len(market_data[i].df) |->
                        [symbol |-> market_data[i].symbol,
                         row |-> market_data[i].df[j]]]])
    IN  [k \in 1..Len(recs) |->
            [id |-> idc + k, symbol |-> recs[k].symbol,
             timestamp |-> recs[k].row.Timestamp,
             open |-> float_or_none(recs[k].row.Open),
             high |-> float_or_none(recs[k].row.High),
             low |-> float_or_none(recs[k].row.Low),
             close |-> float_or_none(recs[k].row.Close)]]

\* every statement committed on its own
autocommit(tbl, recs, fail_at) ==
    IF fail_at \in 1..Len(recs)
    THEN InsertOrReplaceAll(tbl, SubSeq(recs, 1, fail_at - 1))
    ELSE InsertOrReplaceAll(tbl, recs)

\* with sqlite3.connect(...) as conn: the INSERT OR REPLACE statements of
\* one refresh run in one transaction; an exception at record fail_at
\* leaves the with block, which rolls the transaction back, and
\* conn.commit() makes the records visible otherwise (fail_at = 0 or past
\* the last record: no statement fails)
transaction(tbl, recs, fail_at) ==
    IF fail_at \in 1..Len(recs) THEN tbl ELSE InsertOrReplaceAll(tbl, recs)

\* a text timestamp as its date, its separator and its time of day
\* row["Timestamp"].isoformat() of a daily bar: 'YYYY-MM-DDT00:00:00'
bar_isoformat(day) == <<day, "T", 0>>

\* datetime('now', '-N days'): 'YYYY-MM-DD HH:MM:SS'
sqlite_datetime(day, second, days_to_keep) ==
    <<day - days_to_keep, " ", second>>

\* the order of the separators as characters: ' ' (0x20) < 'T' (0x54)
SeparatorLess(a, b) == a = " " /\ b = "T"

\* timestamp < datetime(...) on TEXT values: the BINARY collation compares
\* character by character
text_less(a, b) ==
    \/ a[1] < b[1]
    \/ a[1] = b[1] /\ SeparatorLess(a[2], b[2])
    \/ a[1] = b[1] /\ a[2] = b[2] /\ a[3] < b[3]

\* clear_old_data(days_to_keep) at a moment of the day: the table after the
\* DELETE and cursor.rowcount; the table as it was and 0 when the statement
\* fails
clear_old_data(tbl, day, second, days_to_keep, db_up) ==
    LET cutoff == sqlite_datetime(day, second, days_to_keep)
        old(r) == text_less(bar_isoformat(r.timestamp), cutoff)
        kept == SelectSeq(tbl, LAMBDA r : ~old(r))
    IN  IF db_up
        THEN [store |-> kept, deleted_rows |-> Len(tbl) - Len(kept)]
        ELSE [store |-> tbl, deleted_rows |-> 0]

InitIngest ==
    /\ store = <<>>
    /\ last_id = 0
    /\ now = StartDay
    /\ llm_set = TRUE
    /\ refreshes = 0
    /\ call = NoCall
    /\ built = NoBuild
    /\ NoMemory

\* fetch_and_update_market_data: raises when no frame was accepted or when
\* a record cannot be stored, and reports the records stored otherwise
RefreshFrames ==
    /\ refreshes < MaxRefresh
    /\ \E offered \in Offers, fail_at \in 0..MaxFail :
         LET market_data == fetch_market_frames(offered, now)
             recs == priced_records(last_id, market_data)
             failed == fail_at \in 1..Len(recs)
         IN  IF market_data = <<>>
             THEN /\ call' = [op |-> "fetch_and_update_market_data",
                              raised |-> TRUE, cause |-> "fetch",
                              before |-> store]
                  /\ UNCHANGED <<store, last_id, refreshes>>
             ELSE /\ store' = transaction(store, recs, fail_at)
                  /\ last_id' = IF failed THEN last_id
                                ELSE last_id + Len(recs)
                  /\ refreshes' = IF failed THEN refreshes
                                  ELSE refreshes + 1
                  /\ call' = IF failed
                             THEN [op |-> "fetch_and_update_market_data",
                                   raised |-> TRUE, cause |-> "store",
                                   fail_at |-> fail_at, before |-> store]
                             ELSE [op |-> "fetch_and_update_market_data",
                                   raised |-> FALSE, offered |-> offered,
                                   records |-> Len(recs), before |-> store]
    /\ UNCHANGED <<now, llm_set, built>>
    /\ UNCHANGED memory

\* clear_old_data(days_to_keep), called at some second of the day
ClearOldData ==
    /\ \E days_to_keep \in 0..MaxKeep, second \in 0..MaxSecond,
          db_up \in BOOLEAN :
         LET out == clear_old_data(store, now, second, days_to_keep, db_up)
         IN  /\ store' = out.store
             /\ call' = [op |-> "clear_old_data", env |-> Env(db_up),
                         days_to_keep |-> days_to_keep, second |-> second,
                         before |-> store, returned |-> out.deleted_rows]
    /\ UNCHANGED <<last_id, now, llm_set, refreshes, built>>
    /\ UNCHANGED memory

NextIngest == RefreshFrames \/ ClearOldData

SpecIngest == InitIngest /\ [][NextIngest]_vars

(***************************************************************************)
(* A refresh running while a comparison of several symbols is executed:    *)
(* the refresh writes its records one by one inside its transaction and    *)
(* commits, the comparison runs one statement per symbol, each on a        *)
(* connection of its own.                                                  *)
(***************************************************************************)
\* a reader that sees the records written so far
uncommitted(tbl, recs, written) ==
    InsertOrReplaceAll(tbl, SubSeq(recs, 1, written))

\* the table a statement on another connection reads while a transaction
\* has written the first written of its records: uncommitted records are
\* not visible
committed(tbl, recs, written) == tbl

\* what the fetches of a refresh return while comparisons run
ConcurrentOffers ==
    {[a \in Assets |-> 1], [a \in Assets |-> IF a = "AAPL" THEN 1 ELSE 0]}

ComparedSymbolLists ==
    {<<"AAPL", "MSFT">>, <<"BTC-USD", "AAPL">>, <<"AAPL", "AAPL">>}

Comparisons ==
    [symbols : ComparedSymbolLists, intent : {"comparison"},
     time_range : {<<>>}, metrics : {<<>>}, aggregation : {""}]

Idle(commits) == [op |-> "idle", commits |-> commits]

\* the records the running refresh has written and not committed
Written == IF built.op = "store" THEN built.written ELSE 0
Pending == IF built.op = "store" THEN built.recs ELSE <<>>

InitConcurrent ==
    /\ store = <<>>
    /\ last_id = 0
    /\ now = StartDay
    /\ llm_set = TRUE
    /\ refreshes = 0
    /\ call = NoCall
    /\ built = Idle(<<0>>)
    /\ NoMemory

\* fetch_and_update_market_data up to the first INSERT of _store_market_data
BeginStore ==
    /\ built.op = "idle"
    /\ refreshes < MaxRefresh
    /\ \E offered \in ConcurrentOffers :
         built' = [op |-> "store",
                   recs |-> priced_records(
                                last_id, fetch_market_frames(offered, now)),
                   written |-> 0, commits |-> built.commits]
    /\ UNCHANGED <<store, last_id, now, llm_set, refreshes, call>>
    /\ UNCHANGED memory

\* one cursor.execute of the loop over the rows
WriteRecord ==
    /\ built.op = "store"
    /\ built.written < Len(built.recs)
    /\ built' = [built EXCEPT !.written = @ + 1]
    /\ UNCHANGED <<store, last_id, now, llm_set, refreshes, call>>
    /\ UNCHANGED memory

\* conn.commit()
Commit ==
    /\ built.op = "store"
    /\ built.written = Len(built.recs)
    /\ store' = transaction(store, built.recs, 0)
    /\ last_id' = last_id + Len(built.recs)
    /\ refreshes' = refreshes + 1
    /\ built' = Idle(Append(built.commits, last_id'))
    /\ UNCHANGED <<now, llm_set, call>>
    /\ UNCHANGED memory

\* execute_dynamic_query of a comparison of several symbols, up to the loop
\* over the symbols
BeginComparison ==
    /\ call = NoCall
    /\ \E e \in Comparisons :
         call' = [op |-> "for symbol in symbols", extraction |-> e,
                  parts |-> <<>>, seen |-> <<>>, during |-> <<>>]
    /\ UNCHANGED <<store, last_id, now, llm_set, refreshes, built>>
    /\ UNCHANGED memory

\* one turn of the loop: the statement of the next symbol on a connection
\* of its own; seen and during record the committed size of the table and
\* the uncommitted records at the moment of the statement
QuerySymbol ==
    /\ call.op = "for symbol in symbols"
    /\ Len(call.parts) < Len(call.extraction.symbols)
    /\ \E scan \in Scans :
         LET qr == build_dynamic_sql_query(call.extraction)
             symbol == qr.params[Len(call.parts) + 1]
             rows == FetchAll(committed(store, Pending, Written),
                              qr.sql_query, <<symbol>>, now, scan)
         IN  call' = [call EXCEPT !.parts = Append(@, rows),
                                  !.seen = Append(@, last_id),
                                  !.during = Append(@, Written)]
    /\ UNCHANGED <<store, last_id, now, llm_set, refreshes, built>>
    /\ UNCHANGED memory

\* the end of the loop: sort, summarise, return
EndComparison ==
    /\ call.op = "for symbol in symbols"
    /\ Len(call.parts) = Len(call.extraction.symbols)
    /\ LET qr == build_dynamic_sql_query(call.extraction)
           ex == merged_result(
                     FlattenRange(call.parts, 1, Len(call.parts)),
                     qr.sql_query, qr.params, call.extraction, now)
       IN  call' = [op |-> "execute_dynamic_query",
                    extraction |-> call.extraction, executed |-> ex.ret,
                    parts |-> call.parts, seen |-> call.seen,
                    during |-> call.during]
    /\ UNCHANGED <<store, last_id, now, llm_set, refreshes, built>>
    /\ UNCHANGED memory

NextConcurrent ==
    \/ BeginStore \/ WriteRecord \/ Commit
    \/ BeginComparison \/ QuerySymbol \/ EndComparison

SpecConcurrent == InitConcurrent /\ [][NextConcurrent]_vars

(***************************************************************************)
(* The conversation memory: chats are created, messages saved and          *)
(* histories loaded, one call at a time.                                   *)
(***************************************************************************)
InitMemory ==
    /\ store = <<>>
    /\ last_id = 0
    /\ now = StartDay
    /\ llm_set = TRUE
    /\ refreshes = 0
    /\ call = NoCall
    /\ built = NoBuild
    /\ NoMemory

\* create_chat(chat_id) called by a client
CreateChat ==
    /\ Len(chats) < MaxChats
    /\ \E chat_id \in ChatIds :
         LET made == create_chat(chats, chat_id, clock + 1)
         IN  /\ chats' = made.chats
             /\ clock' = clock + 1
             /\ call' = [op |-> "create_chat", chat_id |-> chat_id,
                         raised |-> made.raised, returned |-> made.id]
    /\ UNCHANGED <<messages, market>>

SaveMessage ==
    /\ Len(messages) < MaxMessages
    /\ \E chat_id \in ChatIds, role \in Roles, content \in Contents,
          step \in 1..MaxStep, db_up \in BOOLEAN :
         LET saved == save_message(chats, messages, clock, chat_id, role,
                                   content, step, db_up)
         IN  /\ chats' = saved.chats
             /\ messages' = saved.messages
             /\ clock' = saved.clock
             /\ call' = [op |-> "save_message", chat_id |-> chat_id,
                         db_up |-> db_up, returned |-> saved.returned]
    /\ UNCHANGED market

LoadChatHistory ==
    /\ \E chat_id \in ChatIds, db_up \in BOOLEAN :
         call' = [op |-> "load_chat_history", chat_id |-> chat_id,
                  db_up |-> db_up,
                  returned |-> load_chat_history(messages, chat_id, db_up)]
    /\ UNCHANGED <<memory, market>>

NextMemory == CreateChat \/ SaveMessage \/ LoadChatHistory

SpecMemory == InitMemory /\ [][NextMemory]_vars

(***************************************************************************)
(* Concurrent GenaiChat.generate calls on one chat: the coroutines of one  *)
(* event loop interleave where they wait for the model, and nowhere else.  *)
(***************************************************************************)
\* the calls and the chat they share
Calls == 1..MaxCalls
SharedChat == "c1"

Query(g) == [of |-> g, text |-> "query"]
Reply(g) == [of |-> g, text |-> "response"]

\* save_message_memory(chat_id, content, role): MEMORY.save_message, whose
\* outcome is logged and dropped
save_message_memory(mem, chat_id, content, role, db_up) ==
    LET saved == save_message(mem.chats, mem.messages, mem.clock, chat_id,
                              role, content, 1, db_up)
    IN  [chats |-> saved.chats, messages |-> saved.messages,
         clock |-> saved.clock]

\* the model's reply saved before the user's query
save_reply_first(mem, chat_id, query, reply, up_user, up_model) ==
    save_message_memory(
        save_message_memory(mem, chat_id, reply, "model", up_model),
        chat_id, query, "user", up_user)

\* await save_message_memory(chat_id, content=query, role="user")
\* await save_message_memory(chat_id, content=result, role="model"):
\* neither coroutine waits for anything, so nothing runs between the two
save_turn(mem, chat_id, query, reply, up_user, up_model) ==
    save_message_memory(
        save_message_memory(mem, chat_id, query, "user", up_user),
        chat_id, reply, "model", up_model)

Memory == [chats |-> chats, messages |-> messages, clock |-> clock]

InitGenerate ==
    /\ store = <<>>
    /\ last_id = 0
    /\ now = StartDay
    /\ llm_set = TRUE
    /\ refreshes = 0
    /\ call = [g \in Calls |-> [pc |-> "idle"]]
    /\ built = NoBuild
    /\ NoMemory

\* generate(query, chat_id) up to the first request to the model: the
\* history is read and the prompt built; loaded is the number of messages
\* the store held then
Generate(g) ==
    /\ call[g].pc = "idle"
    /\ call' = [call EXCEPT ![g] = [pc |-> "create_chat_completion",
                                    loaded |-> Len(messages)]]
    /\ UNCHANGED <<memory, market>>

\* the response saved and returned
Respond(g, up_user, up_model) ==
    LET mem == save_turn(Memory, SharedChat, Query(g), Reply(g), up_user,
                         up_model)
    IN  /\ chats' = mem.chats
        /\ messages' = mem.messages
        /\ clock' = mem.clock
        /\ call' = [call EXCEPT ![g] = [pc |-> "returned",
                                        loaded |-> call[g].loaded,
                                        up_user |-> up_user,
                                        up_model |-> up_model]]

Raise(g) ==
    /\ call' = [call EXCEPT ![g] = [pc |-> "raised",
                                    loaded |-> call[g].loaded]]
    /\ UNCHANGED memory

\* the model answers the first request: with an exception after the
\* retries, with a text, or with a function call
Completion(g) ==
    /\ call[g].pc = "create_chat_completion"
    /\ \E outcome \in {"raise", "text", "function_call"},
          up_user \in BOOLEAN, up_model \in BOOLEAN :
         CASE outcome = "raise" ->
                /\ up_user /\ up_model
                /\ Raise(g)
           [] outcome = "text" -> Respond(g, up_user, up_model)
           [] outcome = "function_call" ->
                /\ up_user /\ up_model
                /\ call' = [call EXCEPT ![g].pc = "call_function"]
                /\ UNCHANGED memory
    /\ UNCHANGED market

\* call_function: the tool runs and the model is asked again; either may
\* raise
CallFunction(g) ==
    /\ call[g].pc = "call_function"
    /\ \E outcome \in {"raise", "text"},
          up_user \in BOOLEAN, up_model \in BOOLEAN :
         IF outcome = "raise"
         THEN up_user /\ up_model /\ Raise(g)
         ELSE Respond(g, up_user, up_model)
    /\ UNCHANGED market

NextGenerate ==
    \E g \in Calls : Generate(g) \/ Completion(g) \/ CallFunction(g)

SpecGenerate == InitGenerate /\ [][NextGenerate]_vars

(***************************************************************************)
(* Properties.                                                             *)
(***************************************************************************)
Hybrid == call.op = "query_market_data_hybrid"

\* execute_dynamic_query ran in the recorded call
Ran ==
    /\ call.op \in {"query_market_data_hybrid", "execute_dynamic_query"}
    /\ call.executed.status # "not executed"

Succeeded == Ran /\ call.executed.status = "success"

\* the extraction and the data of the recorded call
Asked == call.extracted.v
Data == call.executed.data

SymbolOf(row) == Get(row, <<"symbol">>, Null)
TimestampOf(row) == Get(row, <<"timestamp">>, EmptyTs)

\* the timestamps of the stored rows of the symbols S that pass the time
\* condition cond
StoredStamps(S, cond) ==
    LET passes(r) == r.symbol \in S /\ SatisfiesCond(cond, r.timestamp, now)
        passing == SelectSeq(store, passes)
    IN  [i \in 1..Len(passing) |-> passing[i].timestamp]

\* the timestamps of the returned rows of the symbols S
ReturnedStamps(S) ==
    LET of_S(row) == SymbolOf(row) \in S
        rows == SelectSeq(Data, of_S)
    IN  [i \in 1..Len(rows) |-> TimestampOf(rows[i])]

\* the number of entries of stamps that are not older than t
From(stamps, t) == Cardinality({i \in 1..Len(stamps) : stamps[i] >= t})

\* got holds exactly min(limit, Len(stored)) timestamps, the newest of stored
NewestOf(got, stored, limit) ==
    \A t \in Range(got) \cup Range(stored) \cup {0} :
        From(got, t) = Min2(limit, From(stored, t))

\* the number of stored rows of the symbols S that pass the time filter of
\* the call and are not older than t
StoredFrom(S, t) == From(StoredStamps(S, time_condition(Asked)), t)

\* the number of returned rows of the symbols S that are not older than t
ReturnedFrom(S, t) == From(ReturnedStamps(S), t)

StoredSymbols == {store[i].symbol : i \in 1..Len(store)}

Distinct(s) == \A i, j \in 1..Len(s) : s[i] = s[j] => i = j

MultiComparison ==
    Ran /\ Asked.intent = "comparison" /\ Len(Asked.symbols) > 1

SinglePath == Ran /\ ~(Asked.intent = "comparison" /\ Len(Asked.symbols) > 1)

\* C1: after any sequence of refreshes the store holds at most one row per
\* (symbol, timestamp)
C1_OneRowPerSymbolTimestamp ==
    Cardinality({<<store[i].symbol, store[i].timestamp>> :
                    i \in 1..Len(store)}) = Len(store)

\* C2, as stated: for every comparison of more than one symbol the returned
\* data holds, for each compared symbol, exactly min(25, stored rows of the
\* symbol that pass the time filter) rows, the newest ones
C2_PerSymbolNewest ==
    (MultiComparison /\ Succeeded) =>
        \A s \in Range(Asked.symbols) :
            NewestOf(ReturnedStamps({s}),
                     StoredStamps({s}, time_condition(Asked)), 25)

\* C2, amended: for every comparison of more than one symbol, the symbols
\* pairwise distinct and no aggregation asked, a successful result holds for
\* each compared symbol exactly min(25, stored rows of the symbol that pass
\* the time filter) rows, the newest ones, and rows of no other symbol
C2_PerSymbolNewestPlain ==
    (MultiComparison /\ Succeeded /\ Asked.aggregation = ""
     /\ Distinct(Asked.symbols)) =>
        /\ \A s \in Range(Asked.symbols) :
              NewestOf(ReturnedStamps({s}),
                       StoredStamps({s}, time_condition(Asked)), 25)
        /\ \A i \in 1..Len(Data) : SymbolOf(Data[i]) \in Range(Asked.symbols)

C2_Witness ==
    /\ MultiComparison /\ Succeeded /\ Asked.aggregation = ""
    /\ Asked.symbols = <<"AAPL", "MSFT">>
    /\ StoredFrom({"AAPL"}, 0) > 2 * 25
    /\ StoredFrom({"MSFT"}, 0) = 25 + 1
    /\ ReturnedFrom({"AAPL"}, 0) = 25
    /\ ReturnedFrom({"MSFT"}, 0) = 25

\* C3: for every extraction whose aggregation is avg, sum, max or min the
\* select list of the built query is symbol followed by AGG(c) for every
\* selected column c other than symbol and timestamp, none omitted, the text
\* is well formed, and the query groups by symbol
C3_AggregatedSelectList ==
    (built.op = "_build_dynamic_sql_query"
     /\ built.extraction.aggregation \in AGG4) =>
        LET e == built.extraction
            q == built.result.sql_query
            nonkey == SelectSeq(select_columns(e),
                                LAMBDA c : c \notin {"symbol", "timestamp"})
        IN  /\ q.select.items
                 = <<Bare("symbol")>>
                   \o [i \in 1..Len(nonkey) |-> Agg(e.aggregation, nonkey[i])]
            /\ ~q.select.dangling
            /\ q.group_by

C5_AlwaysStructured ==
    Hybrid =>
        /\ ~call.raised
        /\ call.returned.type = "dict"
        /\ {"status", "timestamp"} \subseteq DOMAIN call.returned.d

\* C5, amended: no exception reaches the caller, and every value returned by
\* query_market_data_hybrid is either the empty list (the extraction failed
\* or recognised no symbol) or a structured response that carries a status,
\* success or error, and the timestamp of the call
C5_StructuredOrEmptyList ==
    Hybrid =>
        /\ ~call.raised
        /\ IF \/ call.extracted.type = "raised"
              \/ /\ call.extracted.type = "StockQueryExtraction"
                 /\ call.extracted.v.symbols # <<>>
           THEN /\ call.returned.type = "dict"
                /\ {"status", "timestamp"} \subseteq DOMAIN call.returned.d
                /\ call.returned.d.status \in {"success", "error"}
                /\ call.returned.d.timestamp = now
           ELSE call.returned.type = "list" /\ call.returned.items = <<>>

C5_Witness ==
    /\ Hybrid
    /\ call.extracted.type = "StockQueryExtraction"
    /\ call.returned.type = "dict"
    /\ call.returned.d.status = "error"
    /\ "timestamp" \in DOMAIN call.returned.d

\* the statement of the recorded call cannot be executed
StatementOfCallFails ==
    LET qr == build_dynamic_sql_query(Asked)
    IN  StatementFails(qr.sql_query,
                       IF qr.is_multi_query THEN <<qr.params[1]>>
                       ELSE qr.params)

\* C6: when the store is unreachable or the built statement fails,
\* execute_dynamic_query does not raise: it returns status error with the
\* exception text, a timestamp and a query_info whose symbols are those of
\* the extraction
C6_ErrorResultOnFailure ==
    Ran =>
        /\ (~call.env.db_up \/ StatementOfCallFails) =>
              call.executed.status = "error"
        /\ call.executed.status = "error" =>
              /\ ~call.raised
              /\ {"error", "timestamp", "query_info"}
                    \subseteq DOMAIN call.executed
              /\ call.executed.error \in {"OperationalError", "TypeError"}
              /\ call.executed.timestamp = now
              /\ call.executed.query_info.symbols = Asked.symbols
              /\ call.returned.type = "dict"

C6_Witness ==
    /\ Ran
    /\ store # <<>>
    /\ call.env.db_up
    /\ StatementOfCallFails
    /\ call.executed.status = "error"
    /\ call.executed.query_info.symbols = <<"AAPL", "MSFT">>

TabulatedDefaults(intent) ==
    CASE intent = "price" -> <<"open", "high", "low", "close">>
      [] intent = "volume" -> <<"volume", "close">>
      [] intent = "volatility" -> <<"volatility", "close", "atr">>
      [] intent = "technical" -> <<"ma5", "ma10", "ma20", "rsi", "atr">>
      [] intent = "trend" -> <<"close", "ma5", "ma20", "pct_change">>
      [] intent = "comparison" -> <<"close", "rsi", "ma5", "ma20", "volume">>
      [] intent = "change" -> <<"close", "pct_change", "open">>
      [] intent \in {"other", ""} -> <<"open", "high", "low", "close",
                                       "volume">>

\* s is t with every repeated element removed, first occurrences kept
IsFirstOccurrences(s, t) ==
    /\ Range(s) = Range(t)
    /\ Distinct(s)
    /\ \A i, j \in 1..Len(s) :
          i < j => \E m \in 1..Len(t) :
                      /\ t[m] = s[i]
                      /\ \A n \in 1..m : t[n] # s[j]

\* C8: with aggregation unset the column list of the built query is symbol,
\* timestamp, then the explicit metrics when there are any and otherwise the
\* tabulated defaults of the intent, duplicates removed keeping the first
\* occurrence
C8_ColumnList ==
    (built.op = "_build_dynamic_sql_query"
     /\ built.extraction.aggregation = "") =>
        LET e == built.extraction
            items == built.result.sql_query.select.items
            cols == [i \in 1..Len(items) |-> items[i].col]
            wanted == <<"symbol", "timestamp">>
                      \o (IF e.metrics # <<>> THEN e.metrics
                          ELSE TabulatedDefaults(e.intent))
        IN  /\ \A i \in 1..Len(items) : items[i].fn = ""
            /\ ~built.result.sql_query.select.dangling
            /\ cols[1] = "symbol" /\ cols[2] = "timestamp"
            /\ IsFirstOccurrences(cols, wanted)

C8_Witness ==
    /\ built.op = "_build_dynamic_sql_query"
    /\ built.extraction.aggregation = ""
    /\ built.extraction.metrics = <<"close", "rsi", "close">>
    /\ Len(built.result.sql_query.select.items) = 4

\* C9: the merged data of a multi-symbol comparison is ordered by symbol
\* descending and, within one symbol, by timestamp descending, whatever the
\* order of the symbols in the extraction
C9_MergedOrder ==
    (MultiComparison /\ Succeeded) =>
        \A i, j \in 1..Len(Data) :
            i < j =>
                \/ StrRank(SymbolOf(Data[i])) > StrRank(SymbolOf(Data[j]))
                \/ /\ SymbolOf(Data[i]) = SymbolOf(Data[j])
                   /\ TimestampOf(Data[i]) >= TimestampOf(Data[j])

C9_Witness ==
    /\ MultiComparison /\ Succeeded
    /\ Asked.symbols = <<"AAPL", "MSFT">>
    /\ Asked.time_range # <<>>
    /\ Len(Data) > 2
    /\ SymbolOf(Data[1]) = "MSFT"
    /\ SymbolOf(Data[Len(Data)]) = "AAPL"
    /\ TimestampOf(Data[1]) > TimestampOf(Data[2])

\* the symbols a single query selects: those asked for, or every symbol
\* when none is asked for
Selected == IF Asked.symbols = <<>> THEN StoredSymbols
            ELSE Range(Asked.symbols)

\* C10: on the single-query path with aggregation unset, data holds at most
\* 50 rows in non-increasing timestamp order, the newest rows that match the
\* symbol and time filters; with aggregation set the query has no LIMIT
C10_SingleQueryNewest ==
    (SinglePath /\ Succeeded) =>
        IF Asked.aggregation = ""
        THEN /\ Len(Data) <= 50
             /\ \A i \in 1..(Len(Data) - 1) :
                   TimestampOf(Data[i]) >= TimestampOf(Data[i + 1])
             /\ NewestOf(ReturnedStamps(Selected),
                         StoredStamps(Selected, time_condition(Asked)), 50)
             /\ \A i \in 1..Len(Data) : SymbolOf(Data[i]) \in Selected
             /\ call.executed.sql_query.limit = 50
        ELSE call.executed.sql_query.limit = 0

C10_Witness ==
    /\ SinglePath /\ Succeeded
    /\ Asked.aggregation = ""
    /\ Asked.symbols = <<"AAPL">>
    /\ StoredFrom({"AAPL"}, 0) > 50
    /\ Len(Data) = 50
    /\ TimestampOf(Data[1]) > TimestampOf(Data[50])


(***************************************************************************)
(* Properties of the time filter.                                          *)
(***************************************************************************)
\* _build_time_filter was applied to the phrase of the recorded state
Resolved == built.op = "_build_time_filter"
Phrase == built.time_range
Predicate == built.result.condition

IsVocabulary(p) == \E v \in Vocabulary : p \in CaseVariants(v)

\* the word is a letter case of one of the forms
IsForm(t, forms) ==
    /\ t.k = "word"
    /\ \E f \in forms : t \in TokenCases(Word(f))

\* the phrase begins with a count and a unit name
BeginsWithCount(p) ==
    /\ Len(p) >= 2
    /\ p[1].k = "num"
    /\ IsForm(p[2], UnitWords)

\* the predicate "timestamp >= date('now', '-<n> days')" and its likes
DaysBack(n) == Cond([DateNow EXCEPT !.days = -n], NoDate)
MonthsBack(n) == Cond([DateNow EXCEPT !.months = -n], NoDate)

\* the days of the model calendar a cutoff is evaluated on
CalendarDays == 0..(2 * DaysPerMonth * MonthsPerYear)

\* C11: _build_time_filter returns a non-empty predicate for each of the
\* eight vocabulary phrases in any letter case, and an empty predicate with
\* an empty parameter list for every phrase it does not recognise.
C11_VocabularyAnyCase ==
    Resolved =>
        /\ IsVocabulary(Phrase) => ~Predicate.empty
        /\ (~IsVocabulary(Phrase) /\ ~BeginsWithCount(Phrase)) =>
               /\ Predicate = NoCondition
               /\ built.result.params = <<>>

C11_Witness ==
    /\ Resolved
    /\ Phrase = <<Word("LAST"), Word("Week")>>
    /\ ~Predicate.empty

\* C12: "N days" resolves to timestamp >= now - N days with an empty
\* parameter list, "N weeks" to exactly the predicate of "(7*N) days", and
\* "N months" to timestamp >= now - N months.
C12_CountedUnits ==
    (Resolved /\ Len(Phrase) = 2 /\ BeginsWithCount(Phrase)) =>
        LET n == Phrase[1].n
        IN  /\ built.result.params = <<>>
            /\ IsForm(Phrase[2], {"day", "days"}) =>
                  /\ Predicate = DaysBack(n)
                  /\ \A day \in CalendarDays :
                        EvalDate(Predicate.lo, day) = day - n
            /\ IsForm(Phrase[2], {"week", "weeks"}) =>
                  /\ built.result
                        = build_time_filter(<<Num(7 * n), Word("days")>>)
                  /\ Predicate = DaysBack(7 * n)
            /\ IsForm(Phrase[2], {"month", "months"}) =>
                  /\ Predicate = MonthsBack(n)
                  /\ \A day \in CalendarDays :
                        EvalDate(Predicate.lo, day) = day - DaysPerMonth * n

C12_Witness ==
    /\ Resolved
    /\ Phrase = <<Num(2), Word("weeks")>>
    /\ Predicate = DaysBack(14)

\* the phrase ends with a count and a unit name
EndsWithCount(p) ==
    /\ Len(p) >= 2
    /\ p[Len(p) - 1].k = "num"
    /\ IsForm(p[Len(p)], UnitWords)

\* C19: for every time phrase whose suffix is "<N> day(s)", "<N> week(s)"
\* or "<N> month(s)", such as "last 7 days" or "previous 7 day",
\* _build_time_filter returns the matching lower-bound predicate.
C19_SuffixCount ==
    (Resolved /\ EndsWithCount(Phrase)) =>
        LET n == Phrase[Len(Phrase) - 1].n
            unit == Phrase[Len(Phrase)]
        IN  /\ IsForm(unit, {"day", "days"}) => Predicate = DaysBack(n)
            /\ IsForm(unit, {"week", "weeks"}) => Predicate = DaysBack(7 * n)
            /\ IsForm(unit, {"month", "months"}) => Predicate = MonthsBack(n)

IsPhrase(p, v) == p \in CaseVariants(v)

\* C20 as stated: the predicates of "yesterday" and "this week" each carry
\* a lower and an upper bound; the other six vocabulary phrases carry a
\* lower bound only.
C20_TwoBounded ==
    (Resolved /\ IsVocabulary(Phrase)) =>
        /\ ~Predicate.empty
        /\ Predicate.lo # NoDate
        /\ (Predicate.hi # NoDate) <=>
              \/ IsPhrase(Phrase, <<Word("yesterday")>>)
              \/ IsPhrase(Phrase, <<Word("this"), Word("week")>>)

\* C20, amended: the predicate of "yesterday" carries a lower and an upper
\* bound; the other seven vocabulary phrases, "this week" among them, carry
\* a lower bound only.
C20_OnlyYesterdayBounded ==
    (Resolved /\ IsVocabulary(Phrase)) =>
        /\ ~Predicate.empty
        /\ Predicate.lo # NoDate
        /\ (Predicate.hi # NoDate) <=>
              IsPhrase(Phrase, <<Word("yesterday")>>)

C20_Witness ==
    /\ Resolved
    /\ Phrase = <<Word("this"), Word("week")>>
    /\ Predicate.lo = [DateNow EXCEPT !.weekday0 = TRUE, !.days = -6]
    /\ Predicate.hi = NoDate


(***************************************************************************)
(* Properties of the builder for aggregations outside avg/sum/max/min.     *)
(***************************************************************************)
\* C18: for an extraction whose aggregation is set but outside avg, sum,
\* max and min (such as count), the select list of the built query is the
\* same symbol, timestamp, columns list as when aggregation is unset: no
\* column is wrapped.
C18_NoWrappingOutsideAgg4 ==
    (built.op = "_build_dynamic_sql_query"
     /\ built.extraction.aggregation \notin (AGG4 \cup {""})) =>
        LET cols == select_columns(built.extraction)
        IN  built.result.sql_query.select
              = [items |-> [i \in 1..Len(cols) |-> Bare(cols[i])],
                 dangling |-> FALSE]


(***************************************************************************)
(* Properties of the summaries.                                            *)
(***************************************************************************)
Summary == call.executed.summary

\* the symbols present in the returned data (the None symbol of the row an
\* aggregate without GROUP BY returns for an empty selection is no symbol)
DataSymbols == {SymbolOf(Data[i]) : i \in 1..Len(Data)} \ {Null}

\* row i is the first row of its symbol in the result order, and no
\* returned row of that symbol has a greater timestamp
IsNewestOf(i, s) ==
    /\ SymbolOf(Data[i]) = s
    /\ \A j \in 1..Len(Data) :
          SymbolOf(Data[j]) = s =>
              /\ j >= i
              /\ TimestampOf(Data[j]) <= TimestampOf(Data[i])

C14_ComparisonSummary ==
    (Succeeded /\ Asked.intent = "comparison" /\ Data # <<>>) =>
        /\ "symbols_compared" \in DOMAIN Summary
        /\ Summary.symbols_compared = DataSymbols
        /\ DOMAIN Summary.latest_values = DataSymbols
        /\ \A s \in DataSymbols :
              \E i \in 1..Len(Data) :
                  /\ IsNewestOf(i, s)
                  /\ Summary.latest_values[s]
                       = [k \in DOMAIN Data[i] \ {<<"id">>} |-> Data[i][k]]

C14_Witness ==
    /\ Succeeded
    /\ Asked.intent = "comparison"
    /\ Asked.aggregation = ""
    /\ Data # <<>>
    /\ Summary.symbols_compared = {"AAPL", "MSFT"}
    /\ Len(Data) > 2 * records_per_symbol - 1
    /\ TimestampOf(Summary.latest_values["MSFT"]) = now


\* C15: if the summary construction raises, execute_dynamic_query still
\* returns status = "success" with data and record_count exactly as fetched,
\* and the summary degrades to a generic count message.
C15_SummaryFailureDegrades ==
    (built.op = "execute_dynamic_query" /\ built.summary_raised) =>
        /\ built.result.status = "success"
        /\ built.result.data = built.data
        /\ built.result.record_count = Len(built.data)
        /\ built.result.summary = count_summary(built.data)


(***************************************************************************)
(* Properties of repeated runs.                                            *)
(***************************************************************************)
RanTwice ==
    /\ call.op = "execute_dynamic_query"
    /\ "again" \in DOMAIN call
    /\ call.executed.status = "success"
    /\ call.again.status = "success"

\* a result without its timestamp field
Undated(result) == [k \in DOMAIN result \ {"timestamp"} |-> result[k]]

SavedUnder(chat_id) ==
    LET rows == SelectSeq(messages, LAMBDA m : m.chat_id = chat_id)
    IN  [i \in 1..Len(rows) |->
            [role |-> rows[i].role, content |-> rows[i].content,
             timestamp |-> rows[i].timestamp]]

\* a history loaded from the store is the messages saved under its chat,
\* in the order saved
HistoryInOrderSaved ==
    (call.op = "load_chat_history" /\ call.db_up) =>
        call.returned = SavedUnder(call.chat_id)

\* after a successful save the chat of the message exists
SavedChatExists ==
    (call.op = "save_message" /\ call.returned) =>
        ChatExists(chats, call.chat_id)

\* C17: after any sequence of save_message calls on any chats,
\* load_chat_history(c) returns exactly the messages saved under chat c, none
\* of another chat, in the order saved; saving to a chat id that does not
\* exist yet creates that chat first.
C17_HistoryRoundTrip == HistoryInOrderSaved /\ SavedChatExists


(***************************************************************************)
(* Properties of the summaries built from fetched rows.                    *)
(***************************************************************************)
\* the success dict was built from the fetched rows of the recorded state
Summarised == built.op = "execute_dynamic_query"
Fetched == built.data
BuiltSummary == built.result.summary

\* the values under a key of the rows that have one that is not None
non_null_values(data, key) ==
    LET has(row) == key \in DOMAIN row /\ row[key].type # "NoneType"
        rows == SelectSeq(data, has)
    IN  [i \in 1..Len(rows) |-> rows[i][key]]

\* C21: for the volume intent without aggregation and non-empty data,
\* summary.average_volume is the arithmetic mean, truncated to an integer, of
\* the volume of every returned row whose volume is not null; a row whose
\* volume is 0 counts in that mean.
C21_AverageVolume ==
    (Summarised /\ built.extraction.intent = "volume"
     /\ built.extraction.aggregation = "" /\ Fetched # <<>>
     /\ ~built.summary_raised) =>
        LET volumes == non_null_values(Fetched, <<"volume">>)
        IN  volumes # <<>> =>
               /\ "average_volume" \in DOMAIN BuiltSummary
               /\ BuiltSummary.average_volume = Sum(volumes) \div Len(volumes)


(***************************************************************************)
(* Properties of single runs.                                              *)
(***************************************************************************)
\* the stored rows the WHERE clause of the recorded extraction lets pass
MatchingStored ==
    LET cond == time_condition(Asked)
        pass(r) ==
            /\ (Asked.symbols = <<>> \/ r.symbol \in Range(Asked.symbols))
            /\ SatisfiesCond(cond, r.timestamp, now)
    IN  SelectSeq(store, pass)

NoDedicatedSummary == {"trend", "change", "other", ""}

\* C22: when a query matches no rows the result has status = "success",
\* record_count = 0 and the summary is exactly {"message": "No data found
\* for the specified criteria"}; when it matches rows and the intent has no
\* dedicated summary (trend, change, other, unset) the summary message is
\* "Retrieved N records" with N = record_count.
C22_EmptyAndGenericSummaries ==
    (Ran /\ call.env.db_up) =>
        /\ MatchingStored = <<>> =>
              /\ call.executed.status = "success"
              /\ call.executed.record_count = 0
              /\ call.executed.summary
                   = [message |->
                        Msg("No data found for the specified criteria", 0)]
        /\ (MatchingStored # <<>> /\ Asked.intent \in NoDedicatedSummary) =>
              /\ call.executed.status = "success"
              /\ call.executed.summary.message
                   = Msg("Retrieved records", call.executed.record_count)

(***************************************************************************)
(* Properties of refreshes with the price columns kept.                    *)
(***************************************************************************)
Refreshed ==
    call.op = "fetch_and_update_market_data" /\ "offered" \in DOMAIN call

\* a price that is present and strictly positive
Positive(cell) == cell.type = "float" /\ cell.v > 0

SoundPrices(r, open, high, low, close) ==
    /\ \A c \in {open, high, low, close} : Positive(r[c])
    /\ r[high].v >= r[low].v

\* every row of the frame an asset's fetch returned is sound
SoundOffer(a) ==
    /\ call.offered[a] # 0
    /\ \A j \in 1..Len(FrameShapes[call.offered[a]]) :
          SoundPrices(PriceRows[FrameShapes[call.offered[a]][j]],
                      "Open", "High", "Low", "Close")

\* the rows the last refresh stored under an asset's key
StoredBy(a) ==
    SelectSeq(store, LAMBDA r : /\ r.id > last_id - call.records
                                /\ r.symbol = CryptoKey(a))

\* C23: after any sequence of refreshes every stored row has open, high,
\* low and close strictly positive and high >= low: a fetched series with a
\* row violating either condition is rejected as a whole before storing,
\* while the other symbols of the same refresh are still stored.
C23_StoredPricesSound ==
    /\ \A i \in 1..Len(store) :
          SoundPrices(store[i], "open", "high", "low", "close")
    /\ Refreshed =>
          \A a \in Assets :
              IF SoundOffer(a)
              THEN [j \in 1..Len(StoredBy(a)) |-> StoredBy(a)[j].timestamp]
                     = [j \in 1..Len(FrameShapes[call.offered[a]]) |->
                           now - Len(FrameShapes[call.offered[a]]) + j]
              ELSE StoredBy(a) = <<>>

\* a refresh in which one asset's series had a bad row and another asset's
\* series was stored
C23_Witness ==
    /\ Refreshed
    /\ \E a, b \in Assets :
          /\ call.offered[a] # 0 /\ ~SoundOffer(a)
          /\ SoundOffer(b) /\ StoredBy(b) # <<>>

RefreshRaised ==
    call.op = "fetch_and_update_market_data" /\ call.raised

\* C28: a refresh is all-or-nothing: if storing any record fails inside
\* _store_market_data the exception propagates and none of that refresh's
\* records are persisted; a refresh that fetched no data raises and leaves
\* the store unchanged; a refresh that returns has stored all its records.
C28_RefreshAllOrNothing ==
    /\ RefreshRaised => store = call.before
    /\ Refreshed =>
          Len(SelectSeq(store, LAMBDA r : r.id > last_id - call.records))
            = call.records

\* storing failed at the second record of a refresh, on a store that
\* earlier refreshes had filled
C28_Witness ==
    /\ RefreshRaised /\ call.cause = "store" /\ call.fail_at = 2
    /\ store # <<>>

Cleared == call.op = "clear_old_data"

\* the daily bar of a stored row lies before the moment days_to_keep days
\* before the call
EarlierThanCutoff(r) ==
    \/ r.timestamp < now - call.days_to_keep
    \/ r.timestamp = now - call.days_to_keep /\ 0 < call.second

\* C25: clear_old_data(days_to_keep) deletes exactly the rows whose
\* timestamp is earlier than now - days_to_keep days, leaves the others
\* unchanged and returns the number deleted (0 when the deletion fails); no
\* ingestion removes a row.
C25_ClearOldData ==
    /\ Cleared =>
          IF call.env.db_up
          THEN /\ store = SelectSeq(call.before,
                                    LAMBDA r : ~EarlierThanCutoff(r))
               /\ call.returned = Len(call.before) - Len(store)
          ELSE store = call.before /\ call.returned = 0
    /\ call.op = "fetch_and_update_market_data" =>
          \A i \in 1..Len(call.before) : call.before[i] \in Range(store)

(***************************************************************************)
(* Properties of a comparison running beside a refresh.                    *)
(***************************************************************************)
Comparing ==
    call.op \in {"for symbol in symbols", "execute_dynamic_query"}
    /\ "parts" \in DOMAIN call

\* the committed state of the table that held the rows up to id c
CommittedState(c) == SelectSeq(store, LAMBDA r : r.id <= c)

ComparedQuery == build_dynamic_sql_query(call.extraction).sql_query

\* the rows a statement for symbol s returns from a table, in either order
\* of the rows with equal timestamps
AnswersFrom(tbl, s) ==
    {FetchAll(tbl, ComparedQuery, <<s>>, now, scan) : scan \in Scans}

\* the turns of the loop made so far for symbol s
TurnsOf(s) ==
    {i \in 1..Len(call.parts) : call.extraction.symbols[i] = s}

\* C24: when a refresh runs concurrently with a comparison of several
\* symbols, the rows returned for any single symbol all come from one
\* committed state of the store; only rows of different symbols may come
\* from different snapshots.
C24_OneSnapshotPerSymbol ==
    Comparing =>
        \A s \in Range(call.extraction.symbols) :
            \E c \in Range(built.commits) :
                \A i \in TurnsOf(s) :
                    call.parts[i] \in AnswersFrom(CommittedState(c), s)

\* C24, amended: the rows returned by any one statement of the loop all
\* come from one committed state of the store, never from a partly written
\* refresh; the statements of different entries of the symbols list, of
\* different symbols or of one symbol named twice, may read different
\* committed states.
C24_OneSnapshotPerStatement ==
    Comparing =>
        \A i \in 1..Len(call.parts) :
            \E c \in Range(built.commits) :
                call.parts[i]
                  \in AnswersFrom(CommittedState(c),
                                  call.extraction.symbols[i])

\* a comparison of two symbols whose first statement ran while a refresh
\* had written records and not committed, and whose statements read
\* different committed states
C24_Witness ==
    /\ call.op = "execute_dynamic_query" /\ "parts" \in DOMAIN call
    /\ call.extraction.symbols[1] # call.extraction.symbols[2]
    /\ call.during[1] >= 1
    /\ call.seen[1] # call.seen[2]
    /\ call.parts[2] # <<>>

(***************************************************************************)
(* The message of a summary.                                               *)
(***************************************************************************)
\* a formatted message: a text, not a list of rows
IsText(v) == DOMAIN v = {"text", "n"}

\* C26: for every intent and non-empty data the summary contains a message
\* entry that is a text string, including volatility and volume queries
\* where no row has a usable value and the summary-failure path.
C26_MessageAlwaysText ==
    (Summarised /\ Fetched # <<>>) =>
        /\ "message" \in DOMAIN BuiltSummary
        /\ IsText(BuiltSummary.message)

(***************************************************************************)
(* The rows of a result and the WHERE clause.                              *)
(***************************************************************************)
\* C27: for every extraction with non-empty symbols, every row in a
\* successful result's data has a symbol in extraction.symbols and, when
\* the time phrase resolves to a predicate, a timestamp satisfying it, on
\* the single-query and on the multi-query path; record_count always
\* equals the number of rows in data.
C27_RowsPassTheFilters ==
    Succeeded =>
        /\ call.executed.record_count = Len(Data)
        /\ Asked.symbols # <<>> =>
              \A i \in 1..Len(Data) :
                  /\ SymbolOf(Data[i]) \in Range(Asked.symbols)
                  /\ SatisfiesCond(time_condition(Asked),
                                   TimestampOf(Data[i]), now)

(***************************************************************************)
(* The symbols of the extractor and the symbols of the store.              *)
(***************************************************************************)
\* a refresh has stored records for the asset the extractor calls s
StoredFor(s) == \E i \in 1..Len(store) : store[i].symbol = CryptoKey(s)

\* C29: for every symbol of the extractor's closed vocabulary (AAPL, MSFT,
\* JPM, BTC, ETH), once a refresh has stored records for that asset, a
\* price query naming that symbol with no time range returns at least one
\* row.
C29_VocabularySymbolsAnswer ==
    (Ran /\ call.env.db_up /\ Asked.intent = "price"
     /\ Asked.time_range = <<>> /\ Len(Asked.symbols) = 1
     /\ StoredFor(Asked.symbols[1])) =>
        /\ call.executed.status = "success"
        /\ Data # <<>>

(***************************************************************************)
(* Properties of concurrent generate calls.                                *)
(***************************************************************************)
\* the messages a call has appended, in the order of their ids
AppendedBy(g) ==
    SelectSeq(messages, LAMBDA m : m.chat_id = SharedChat /\ m.content.of = g)

Generating == DOMAIN call = Calls

\* the user's query immediately followed by the model's reply
IsTurn(g, ms) ==
    /\ Len(ms) = 2
    /\ ms[1].role = "user" /\ ms[1].content = Query(g)
    /\ ms[2].role = "model" /\ ms[2].content = Reply(g)
    /\ ms[2].id = ms[1].id + 1

\* C30: for any interleaving of concurrent generate calls on the same
\* chat_id, every call that returns a response appends exactly two
\* messages, the user query immediately followed by the model reply of the
\* same call, and a call that raises appends no message.
C30_TwoMessagesPerResponse ==
    Generating =>
        \A g \in Calls :
            /\ call[g].pc = "returned" => IsTurn(g, AppendedBy(g))
            /\ call[g].pc = "raised" => AppendedBy(g) = <<>>

\* C30, amended: a call that returns a response appends its user query and
\* then its model reply, each of the two if and only if its save succeeds
\* (a failed save is logged and the response is returned all the same), and
\* when both are saved no message of another call lies between them; a call
\* that raises, and a call still waiting for the model, appends no message.
C30_TurnAsFarAsSaved ==
    Generating =>
        \A g \in Calls :
            LET ms == AppendedBy(g)
            IN  IF call[g].pc = "returned"
                THEN CASE call[g].up_user /\ call[g].up_model ->
                            IsTurn(g, ms)
                       [] call[g].up_user /\ ~call[g].up_model ->
                            /\ Len(ms) = 1
                            /\ ms[1].role = "user"
                            /\ ms[1].content = Query(g)
                       [] ~call[g].up_user /\ call[g].up_model ->
                            /\ Len(ms) = 1
                            /\ ms[1].role = "model"
                            /\ ms[1].content = Reply(g)
                       [] OTHER -> ms = <<>>
                ELSE ms = <<>>

\* two calls that both started on the empty chat, and so waited for the
\* model at the same time, have returned: the second first, with its reply
\* lost, and then the first with its whole turn
C30_Witness ==
    /\ Generating
    /\ call[1].pc = "returned" /\ call[1].up_user /\ call[1].up_model
    /\ call[2].pc = "returned" /\ call[2].up_user /\ ~call[2].up_model
    /\ call[1].loaded = 0 /\ call[2].loaded = 0
    /\ AppendedBy(2)[1].id < AppendedBy(1)[1].id

====
